---- MODULE Spec2Model ----
(***************************************************************************)
(* Crossword generator: the placement engine (findIntersections,           *)
(* canPlaceWord, getIntersectionPlacements, placeWordForResult), the       *)
(* single-attempt generator and the systematic search driver of            *)
(* src/src/generator.js, driven by the CrosswordGenerator object of the    *)
(* application script.                                                     *)
(*                                                                         *)
(* JavaScript indexes strings and arrays from 0, TLA+ sequences from 1:    *)
(* word[i] of the source is word[i + 1] here, seedCombinations[seedIndex]  *)
(* is seedCombinations[seedIndex + 1].  Rows and columns keep the source's *)
(* 0-based numbering.                                                      *)
(***************************************************************************)
EXTENDS Integers, Sequences, FiniteSets, TLC

(***************************************************************************)
(* Bounds of the model.                                                    *)
(***************************************************************************)
\* largest grid size the configurations of the model use (gridSize.max)
MaxGridSize == 5
\* seeds generated in random mode (the source generates 1000)
RandomSeedCount == 2
\* the two values of generation.maxAttempts above 1 that the model tries
FewAttempts == 2
ManyAttempts == 9
\* largest generation.timeoutSeconds of the model
MaxTimeoutSeconds == 2
\* milliseconds by which one observation of the clock may differ from the last
ClockStep == 1000
\* side of the grids, and most non-empty cells, canPlaceWord is applied to on its own
ProbeGridSize == 3
ProbeMaxFilled == 1
\* most letters of the word getIntersectionPlacements is asked to place on its own
ProbeNewWordLength == 2
\* calls of the single-attempt generator with one seed, reset() in between
MaxRuns == 2
\* most entries the word list is given, and gridSize.max where the word list
\* is exercised on its own
MaxWords == 3
MaxWordLength == 2
\* seeds generated in random mode where the search is followed past its
\* first await, and most handlers of the word list that run during one await
YieldSeedCount == 11
MaxYieldEvents == 1
\* gridSize.default of the default configuration
DefaultGridSize == 25
\* the search gives control back to the page at every YieldEvery-th attempt
YieldEvery == 10

(***************************************************************************)
(* Values.                                                                 *)
(***************************************************************************)
\* JavaScript's null (a record, so that it compares with results and placements)
Null == [null |-> TRUE]
\* what JavaScript reads from an array index that was never written
Undefined == "undefined"
Empty == ""
\* the capital letters, in the order localeCompare gives them
Alphabet ==
    << "A", "B", "C", "D", "E", "F", "G", "H", "I", "J", "K", "L", "M",
       "N", "O", "P", "Q", "R", "S", "T", "U", "V", "W", "X", "Y", "Z" >>
Letters == {Alphabet[k] : k \in 1..Len(Alphabet)}
LetterRank(ch) ==
    IF ch \in Letters THEN CHOOSE k \in 1..Len(Alphabet) : Alphabet[k] = ch ELSE 0

Min(a, b) == IF a < b THEN a ELSE b
Max(a, b) == IF a > b THEN a ELSE b

\* grid[row][col]; a column outside the row's array reads as undefined
At(grid, row, col) ==
    IF row \in DOMAIN grid /\ col \in DOMAIN grid[row] THEN grid[row][col] ELSE Undefined

\* Array(gridSize).fill().map(() => Array(gridSize).fill('')); the columns
\* gridSize .. gridSize + spare - 1 are the indexes past the end of each row
NewGrid(gridSize, spare) ==
    [row \in 0..(gridSize - 1) |->
        [col \in 0..(gridSize + spare - 1) |-> IF col < gridSize THEN Empty ELSE Undefined]]

(***************************************************************************)
(* findIntersections: every (i, j) with word1[i] = word2[j], i-major.      *)
(***************************************************************************)
\* findIntersections with the loops exchanged: the outer one over word2
FindIntersectionsSecondWordMajor(word1, word2) ==
    LET pairs == {pair \in (0..(Len(word1) - 1)) \X (0..(Len(word2) - 1)) :
                     word1[pair[1] + 1] = word2[pair[2] + 1]}
        position(pair) == pair[2] * Len(word1) + pair[1]
        ranked == [k \in 1..Cardinality(pairs) |->
                     CHOOSE pair \in pairs :
                        Cardinality({q \in pairs : position(q) < position(pair)}) = k - 1]
    IN  ranked

RECURSIVE IntersectionsFrom(_, _, _, _)
IntersectionsFrom(word1, word2, i, j) ==
    IF i >= Len(word1) THEN <<>>
    ELSE IF j >= Len(word2) THEN IntersectionsFrom(word1, word2, i + 1, 0)
    ELSE (IF word1[i + 1] = word2[j + 1] THEN << <<i, j>> >> ELSE <<>>)
         \o IntersectionsFrom(word1, word2, i, j + 1)

findIntersections(word1, word2) == IntersectionsFrom(word1, word2, 0, 0)

(***************************************************************************)
(* canPlaceWord.  The source returns false at the first failing test; the  *)
(* tests have no effect, so the result is their conjunction.               *)
(***************************************************************************)
\* canPlaceWord without the test that an occupied cell holds the word's letter
CanPlaceWordNoConflictTest(gridSize, grid, word, startRow, startCol, direction) ==
    IF direction = "across" THEN
        /\ ~(startCol + Len(word) > gridSize)
        /\ \A i \in 0..(Len(word) - 1) :
              LET row == startRow
                  col == startCol + i
              IN  At(grid, row, col) = Empty =>
                      /\ ~(row > 0 /\ At(grid, row - 1, col) # Empty)
                      /\ ~(row < gridSize - 1 /\ At(grid, row + 1, col) # Empty)
        /\ ~(startCol > 0 /\ At(grid, startRow, startCol - 1) # Empty)
        /\ ~(startCol + Len(word) < gridSize
               /\ At(grid, startRow, startCol + Len(word)) # Empty)
    ELSE
        /\ ~(startRow + Len(word) > gridSize)
        /\ \A i \in 0..(Len(word) - 1) :
              LET row == startRow + i
                  col == startCol
              IN  At(grid, row, col) = Empty =>
                      /\ ~(col > 0 /\ At(grid, row, col - 1) # Empty)
                      /\ ~(col < gridSize - 1 /\ At(grid, row, col + 1) # Empty)
        /\ ~(startRow > 0 /\ At(grid, startRow - 1, startCol) # Empty)
        /\ ~(startRow + Len(word) < gridSize
               /\ At(grid, startRow + Len(word), startCol) # Empty)

\* canPlaceWord testing only the neighbour above (across) or to the left (down)
CanPlaceWordOneSideOnly(gridSize, grid, word, startRow, startCol, direction) ==
    IF direction = "across" THEN
        /\ ~(startCol + Len(word) > gridSize)
        /\ \A i \in 0..(Len(word) - 1) :
              LET row == startRow
                  col == startCol + i
              IN  /\ ~(At(grid, row, col) # Empty /\ At(grid, row, col) # word[i + 1])
                  /\ At(grid, row, col) = Empty =>
                        ~(row > 0 /\ At(grid, row - 1, col) # Empty)
        /\ ~(startCol > 0 /\ At(grid, startRow, startCol - 1) # Empty)
        /\ ~(startCol + Len(word) < gridSize
               /\ At(grid, startRow, startCol + Len(word)) # Empty)
    ELSE
        /\ ~(startRow + Len(word) > gridSize)
        /\ \A i \in 0..(Len(word) - 1) :
              LET row == startRow + i
                  col == startCol
              IN  /\ ~(At(grid, row, col) # Empty /\ At(grid, row, col) # word[i + 1])
                  /\ At(grid, row, col) = Empty =>
                        ~(col > 0 /\ At(grid, row, col - 1) # Empty)
        /\ ~(startRow > 0 /\ At(grid, startRow - 1, startCol) # Empty)
        /\ ~(startRow + Len(word) < gridSize
               /\ At(grid, startRow + Len(word), startCol) # Empty)

\* canPlaceWord without the test of the cell after the word's end
CanPlaceWordNoEndTest(gridSize, grid, word, startRow, startCol, direction) ==
    IF direction = "across" THEN
        /\ ~(startCol + Len(word) > gridSize)
        /\ \A i \in 0..(Len(word) - 1) :
              LET row == startRow
                  col == startCol + i
              IN  /\ ~(At(grid, row, col) # Empty /\ At(grid, row, col) # word[i + 1])
                  /\ At(grid, row, col) = Empty =>
                        /\ ~(row > 0 /\ At(grid, row - 1, col) # Empty)
                        /\ ~(row < gridSize - 1 /\ At(grid, row + 1, col) # Empty)
        /\ ~(startCol > 0 /\ At(grid, startRow, startCol - 1) # Empty)
    ELSE
        /\ ~(startRow + Len(word) > gridSize)
        /\ \A i \in 0..(Len(word) - 1) :
              LET row == startRow + i
                  col == startCol
              IN  /\ ~(At(grid, row, col) # Empty /\ At(grid, row, col) # word[i + 1])
                  /\ At(grid, row, col) = Empty =>
                        /\ ~(col > 0 /\ At(grid, row, col - 1) # Empty)
                        /\ ~(col < gridSize - 1 /\ At(grid, row, col + 1) # Empty)
        /\ ~(startRow > 0 /\ At(grid, startRow - 1, startCol) # Empty)

canPlaceWord(gridSize, grid, word, startRow, startCol, direction) ==
    IF direction = "across" THEN
        /\ ~(startCol + Len(word) > gridSize)
        /\ \A i \in 0..(Len(word) - 1) :
              LET row == startRow
                  col == startCol + i
              IN  /\ ~(At(grid, row, col) # Empty /\ At(grid, row, col) # word[i + 1])
                  /\ At(grid, row, col) = Empty =>
                        /\ ~(row > 0 /\ At(grid, row - 1, col) # Empty)
                        /\ ~(row < gridSize - 1 /\ At(grid, row + 1, col) # Empty)
        /\ ~(startCol > 0 /\ At(grid, startRow, startCol - 1) # Empty)
        /\ ~(startCol + Len(word) < gridSize
               /\ At(grid, startRow, startCol + Len(word)) # Empty)
    ELSE
        /\ ~(startRow + Len(word) > gridSize)
        /\ \A i \in 0..(Len(word) - 1) :
              LET row == startRow + i
                  col == startCol
              IN  /\ ~(At(grid, row, col) # Empty /\ At(grid, row, col) # word[i + 1])
                  /\ At(grid, row, col) = Empty =>
                        /\ ~(col > 0 /\ At(grid, row, col - 1) # Empty)
                        /\ ~(col < gridSize - 1 /\ At(grid, row, col + 1) # Empty)
        /\ ~(startRow > 0 /\ At(grid, startRow - 1, startCol) # Empty)
        /\ ~(startRow + Len(word) < gridSize
               /\ At(grid, startRow + Len(word), startCol) # Empty)

(***************************************************************************)
(* getIntersectionPlacements: one candidate [startRow, startCol,           *)
(* direction] per intersection pair that is in bounds and legal.           *)
(***************************************************************************)
\* getIntersectionPlacements with the two indexes of an intersection exchanged
GetIntersectionPlacementsSwappedIndexes(gridSize, grid, newWord, existingPlacement) ==
    LET intersections == findIntersections(newWord, existingPlacement.word)
        Candidate(pair) ==
            LET newIdx == pair[2]
                existingIdx == pair[1]
            IN  IF existingPlacement.direction = "across"
                THEN <<existingPlacement.startRow - newIdx,
                       existingPlacement.startCol + existingIdx, "down">>
                ELSE <<existingPlacement.startRow + existingIdx,
                       existingPlacement.startCol - newIdx, "across">>
        Legal(c) ==
            IF c[3] = "down"
            THEN c[1] >= 0 /\ c[1] + Len(newWord) <= gridSize
                 /\ canPlaceWord(gridSize, grid, newWord, c[1], c[2], c[3])
            ELSE c[2] >= 0 /\ c[2] + Len(newWord) <= gridSize
                 /\ canPlaceWord(gridSize, grid, newWord, c[1], c[2], c[3])
    IN  SelectSeq([k \in 1..Len(intersections) |-> Candidate(intersections[k])], Legal)

\* getIntersectionPlacements without the call of canPlaceWord
GetIntersectionPlacementsNoLegalityTest(gridSize, grid, newWord, existingPlacement) ==
    LET intersections == findIntersections(newWord, existingPlacement.word)
        newStartRow(pair) ==
            IF existingPlacement.direction = "across"
            THEN existingPlacement.startRow - pair[1]
            ELSE existingPlacement.startRow + pair[2]
        newStartCol(pair) ==
            IF existingPlacement.direction = "across"
            THEN existingPlacement.startCol + pair[2]
            ELSE existingPlacement.startCol - pair[1]
        newDirection ==
            IF existingPlacement.direction = "across" THEN "down" ELSE "across"
        accepted(pair) ==
            IF existingPlacement.direction = "across"
            THEN /\ newStartRow(pair) >= 0
                 /\ newStartRow(pair) + Len(newWord) <= gridSize
            ELSE /\ newStartCol(pair) >= 0
                 /\ newStartCol(pair) + Len(newWord) <= gridSize
        kept == SelectSeq(intersections, accepted)
    IN  [k \in 1..Len(kept) |->
            <<newStartRow(kept[k]), newStartCol(kept[k]), newDirection>>]

getIntersectionPlacements(gridSize, grid, newWord, existingPlacement) ==
    LET intersections == findIntersections(newWord, existingPlacement.word)
        newStartRow(pair) ==
            IF existingPlacement.direction = "across"
            THEN existingPlacement.startRow - pair[1]
            ELSE existingPlacement.startRow + pair[2]
        newStartCol(pair) ==
            IF existingPlacement.direction = "across"
            THEN existingPlacement.startCol + pair[2]
            ELSE existingPlacement.startCol - pair[1]
        newDirection ==
            IF existingPlacement.direction = "across" THEN "down" ELSE "across"
        accepted(pair) ==
            IF existingPlacement.direction = "across"
            THEN /\ newStartRow(pair) >= 0
                 /\ newStartRow(pair) + Len(newWord) <= gridSize
                 /\ canPlaceWord(gridSize, grid, newWord,
                                 newStartRow(pair), newStartCol(pair), newDirection)
            ELSE /\ newStartCol(pair) >= 0
                 /\ newStartCol(pair) + Len(newWord) <= gridSize
                 /\ canPlaceWord(gridSize, grid, newWord,
                                 newStartRow(pair), newStartCol(pair), newDirection)
        kept == SelectSeq(intersections, accepted)
    IN  [k \in 1..Len(kept) |->
            <<newStartRow(kept[k]), newStartCol(kept[k]), newDirection>>]

(***************************************************************************)
(* placeWordForResult: appends the placement, records the word and the     *)
(* start cell's number, writes the letters.  It validates nothing.  A      *)
(* write past the end of a row lengthens that row's array.                 *)
(***************************************************************************)
\* the cell at offset i of a word starting at (startRow, startCol)
CellAt(startRow, startCol, direction, i) ==
    IF direction = "across" THEN <<startRow, startCol + i>> ELSE <<startRow + i, startCol>>

\* placeWordForResult writing every word along its row, whatever its direction
PlaceWordIgnoringDirection(result, word, clue, startRow, startCol, direction) ==
    [placements |-> Append(result.placements,
                           [word |-> word, clue |-> clue, startRow |-> startRow,
                            startCol |-> startCol, direction |-> direction,
                            number |-> result.currentNumber]),
     placedWords |-> result.placedWords \cup {word},
     grid |-> [row \in DOMAIN result.grid |->
                 [col \in DOMAIN result.grid[row] |->
                     IF \E i \in 0..(Len(word) - 1) :
                            CellAt(startRow, startCol, "across", i) = <<row, col>>
                     THEN word[(CHOOSE i \in 0..(Len(word) - 1) :
                                 CellAt(startRow, startCol, "across", i) = <<row, col>>) + 1]
                     ELSE result.grid[row][col]]],
     wordNumbers |-> (<<startRow, startCol>> :> result.currentNumber) @@ result.wordNumbers,
     currentNumber |-> result.currentNumber + 1]

\* placeWordForResult storing the placement in place of the list, not at its end
PlaceWordReplacingPlacements(result, word, clue, startRow, startCol, direction) ==
    [placements |-> <<[word |-> word, clue |-> clue, startRow |-> startRow,
                       startCol |-> startCol, direction |-> direction,
                       number |-> result.currentNumber]>>,
     placedWords |-> result.placedWords \cup {word},
     grid |-> [row \in DOMAIN result.grid |->
                 [col \in DOMAIN result.grid[row] |->
                     IF \E i \in 0..(Len(word) - 1) :
                            CellAt(startRow, startCol, direction, i) = <<row, col>>
                     THEN word[(CHOOSE i \in 0..(Len(word) - 1) :
                                 CellAt(startRow, startCol, direction, i) = <<row, col>>) + 1]
                     ELSE result.grid[row][col]]],
     wordNumbers |-> (<<startRow, startCol>> :> result.currentNumber) @@ result.wordNumbers,
     currentNumber |-> result.currentNumber + 1]

\* placeWordForResult giving the number without advancing the counter
PlaceWordKeepingNumber(result, word, clue, startRow, startCol, direction) ==
    [placements |-> Append(result.placements,
                           [word |-> word, clue |-> clue, startRow |-> startRow,
                            startCol |-> startCol, direction |-> direction,
                            number |-> result.currentNumber]),
     placedWords |-> result.placedWords \cup {word},
     grid |-> [row \in DOMAIN result.grid |->
                 [col \in DOMAIN result.grid[row] |->
                     IF \E i \in 0..(Len(word) - 1) :
                            CellAt(startRow, startCol, direction, i) = <<row, col>>
                     THEN word[(CHOOSE i \in 0..(Len(word) - 1) :
                                 CellAt(startRow, startCol, direction, i) = <<row, col>>) + 1]
                     ELSE result.grid[row][col]]],
     wordNumbers |-> (<<startRow, startCol>> :> result.currentNumber) @@ result.wordNumbers,
     currentNumber |-> result.currentNumber]

placeWordForResult(result, word, clue, startRow, startCol, direction) ==
    [placements |-> Append(result.placements,
                           [word |-> word, clue |-> clue, startRow |-> startRow,
                            startCol |-> startCol, direction |-> direction,
                            number |-> result.currentNumber]),
     placedWords |-> result.placedWords \cup {word},
     grid |-> [row \in DOMAIN result.grid |->
                 [col \in DOMAIN result.grid[row] |->
                     IF \E i \in 0..(Len(word) - 1) :
                            CellAt(startRow, startCol, direction, i) = <<row, col>>
                     THEN word[(CHOOSE i \in 0..(Len(word) - 1) :
                                 CellAt(startRow, startCol, direction, i) = <<row, col>>) + 1]
                     ELSE result.grid[row][col]]],
     wordNumbers |-> (<<startRow, startCol>> :> result.currentNumber) @@ result.wordNumbers,
     currentNumber |-> result.currentNumber + 1]

\* scoreCrosswordResult: 100 per placement
\* scoreCrosswordResult counting two placements at most
ScoreOfAtMostTwoPlacements(result) == Min(Len(result.placements), 2) * 100

scoreCrosswordResult(result) == Len(result.placements) * 100

(***************************************************************************)
(* The four comparators of generateWordOrderVariations; Before is "the     *)
(* comparator is negative": a sorts before b.                              *)
(***************************************************************************)
\* a.localeCompare(b) < 0 for words of capital letters
LocaleBefore(a, b) ==
    \E k \in 1..(Min(Len(a), Len(b)) + 1) :
        /\ \A m \in 1..(k - 1) : a[m] = b[m]
        /\ \/ k > Len(a) /\ k <= Len(b)
           \/ k <= Len(a) /\ k <= Len(b) /\ LetterRank(a[k]) < LetterRank(b[k])

Before(order, a, b) ==
    CASE order = "longestFirst"  -> Len(b.word) - Len(a.word) < 0
      [] order = "shortestFirst" -> Len(a.word) - Len(b.word) < 0
      [] order = "alphabetical"  -> LocaleBefore(a.word, b.word)
      [] order = "reverseAlphabetical" -> LocaleBefore(b.word, a.word)

(***************************************************************************)
(* Array.prototype.sort is stable: x goes after every element that does    *)
(* not sort after it, so equal elements keep their original order.         *)
(***************************************************************************)
RECURSIVE InsertSorted(_, _, _)
InsertSorted(sorted, x, order) ==
    IF sorted = <<>> THEN <<x>>
    ELSE IF Before(order, x, Head(sorted)) THEN <<x>> \o sorted
    ELSE <<Head(sorted)>> \o InsertSorted(Tail(sorted), x, order)

RECURSIVE StableSort(_, _)
StableSort(seq, order) ==
    IF seq = <<>> THEN <<>>
    ELSE InsertSorted(StableSort(SubSeq(seq, 1, Len(seq) - 1), order), seq[Len(seq)], order)

(***************************************************************************)
(* deterministicShuffle.  random() is sin(seed++) * 10000 less its floor.  *)
(* A seed is written in tenths (2 is 0.2), a draw in ten-thousandths,      *)
(* rounded down: SineFraction[2][0] = 6933 is frac(sin(0.2) * 10000) =     *)
(* 0.6933...  For these seeds and every currentIndex up to 8 the rounding  *)
(* does not change Math.floor(random() * currentIndex).                    *)
(***************************************************************************)
RandomValues == {2, 5}

SineFraction ==
    [seed \in RandomValues |->
        IF seed = 2
        THEN [draw \in 0..6 |-> CASE draw = 0 -> 6933 [] draw = 1 -> 3908 [] draw = 2 -> 9640
                                  [] draw = 3 -> 2585 [] draw = 4 -> 2422 [] draw = 5 -> 4534
                                  [] OTHER -> 1059]
        ELSE [draw \in 0..6 |-> CASE draw = 0 -> 2553 [] draw = 1 -> 9498 [] draw = 2 -> 7214
                                  [] draw = 3 -> 1677 [] draw = 4 -> 6988 [] draw = 5 -> 5967
                                  [] OTHER -> 1998]]

\* one pass of the while loop per element; draw counts the calls of random()
RECURSIVE ShuffleFrom(_, _, _, _)
ShuffleFrom(array, seed, currentIndex, draw) ==
    IF currentIndex = 0 THEN array
    ELSE LET randomIndex == (SineFraction[seed][draw] * currentIndex) \div 10000
             index == currentIndex - 1
         IN  ShuffleFrom([array EXCEPT ![index + 1] = array[randomIndex + 1],
                                       ![randomIndex + 1] = array[index + 1]],
                         seed, index, draw + 1)

deterministicShuffle(array, seed) == ShuffleFrom(array, seed, Len(array), 0)

(***************************************************************************)
(* Seeds.                                                                  *)
(***************************************************************************)
generateWordOrderVariations(words) ==
    << StableSort(words, "longestFirst"), StableSort(words, "shortestFirst"),
       StableSort(words, "alphabetical"), StableSort(words, "reverseAlphabetical") >>

generateStartingPositionVariations(gridSize) ==
    LET center == gridSize \div 2
    IN  << [startRow |-> center, startCol |-> center], [startRow |-> 0, startCol |-> 0] >>

\* the seed lists generateSeedCombinations can return: one list in maxOverlap
\* mode, one per outcome of the calls of Math.random() in random mode
generateSeedCombinations(words, gridSize, generationMode) ==
    IF generationMode = "random"
    THEN [1..RandomSeedCount -> [randomSeed : RandomValues, wordOrderSeed : RandomValues]]
    ELSE LET wordPermutations == generateWordOrderVariations(words)
             startingPositions == generateStartingPositionVariations(gridSize)
             perOrder == Len(startingPositions)
         IN  { [k \in 1..(Len(wordPermutations) * perOrder) |->
                  [wordOrder |-> wordPermutations[((k - 1) \div perOrder) + 1],
                   startingPosition |-> startingPositions[((k - 1) % perOrder) + 1]]] }

(***************************************************************************)
(* The choice of a position for one word (generateSingleCrosswordWithSeed, *)
(* the body of the filter callback): the scan over the placements made so  *)
(* far and, for each, over its candidates.                                 *)
(***************************************************************************)
\* ScanCandidates replacing the current choice on an equal count too
RECURSIVE ScanCandidatesTakingTies(_, _, _, _, _, _)
ScanCandidatesTakingTies(mode, intersections, candidates, c, bestPlacement, maxIntersections) ==
    IF c > Len(candidates)
    THEN [bestPlacement |-> bestPlacement, maxIntersections |-> maxIntersections,
          examined |-> c - 1]
    ELSE LET candidate == [startRow |-> candidates[c][1], startCol |-> candidates[c][2],
                           direction |-> candidates[c][3]]
         IN  IF mode = "maxOverlap"
             THEN IF intersections >= maxIntersections
                  THEN ScanCandidatesTakingTies(mode, intersections, candidates, c + 1,
                                                candidate, intersections)
                  ELSE ScanCandidatesTakingTies(mode, intersections, candidates, c + 1,
                                                bestPlacement, maxIntersections)
             ELSE [bestPlacement |-> candidate, maxIntersections |-> maxIntersections,
                   examined |-> c]

\* the inner loop from candidate c on; examined counts the candidates the
\* loop body has run for
RECURSIVE ScanCandidates(_, _, _, _, _, _)
ScanCandidates(mode, intersections, candidates, c, bestPlacement, maxIntersections) ==
    IF c > Len(candidates)
    THEN [bestPlacement |-> bestPlacement, maxIntersections |-> maxIntersections,
          examined |-> c - 1]
    ELSE LET candidate == [startRow |-> candidates[c][1], startCol |-> candidates[c][2],
                           direction |-> candidates[c][3]]
         IN  IF mode = "maxOverlap"
             THEN IF intersections > maxIntersections
                  THEN ScanCandidates(mode, intersections, candidates, c + 1,
                                      candidate, intersections)
                  ELSE ScanCandidates(mode, intersections, candidates, c + 1,
                                      bestPlacement, maxIntersections)
             ELSE [bestPlacement |-> candidate, maxIntersections |-> maxIntersections,
                   examined |-> c]

\* ScanPlacements going on to the later placements in random mode as well
RECURSIVE ScanPlacementsNoBreak(_, _, _, _, _, _, _)
ScanPlacementsNoBreak(mode, gridSize, result, word, k, bestPlacement, maxIntersections) ==
    IF k > Len(result.placements) THEN [bestPlacement |-> bestPlacement, examined |-> <<>>]
    ELSE LET existingPlacement == result.placements[k]
             candidates == getIntersectionPlacements(gridSize, result.grid, word,
                                                     existingPlacement)
             intersections == Len(findIntersections(word, existingPlacement.word))
             scanned == ScanCandidates(mode, intersections, candidates, 1,
                                       bestPlacement, maxIntersections)
             here == [placement |-> k, candidates |-> scanned.examined]
             later == ScanPlacementsNoBreak(mode, gridSize, result, word, k + 1,
                                            scanned.bestPlacement,
                                            scanned.maxIntersections)
         IN  [bestPlacement |-> later.bestPlacement,
              examined |-> <<here>> \o later.examined]

\* the outer loop from placement k on; examined lists, for each placement
\* getIntersectionPlacements was called for, its index and the number of its
\* candidates the inner loop's body has run for
RECURSIVE ScanPlacements(_, _, _, _, _, _, _)
ScanPlacements(mode, gridSize, result, word, k, bestPlacement, maxIntersections) ==
    IF k > Len(result.placements) THEN [bestPlacement |-> bestPlacement, examined |-> <<>>]
    ELSE LET existingPlacement == result.placements[k]
             candidates == getIntersectionPlacements(gridSize, result.grid, word,
                                                     existingPlacement)
             intersections == Len(findIntersections(word, existingPlacement.word))
             scanned == ScanCandidates(mode, intersections, candidates, 1,
                                       bestPlacement, maxIntersections)
             here == [placement |-> k, candidates |-> scanned.examined]
         IN  IF mode = "random" /\ scanned.bestPlacement # Null
             THEN [bestPlacement |-> scanned.bestPlacement, examined |-> <<here>>]
             ELSE LET later == ScanPlacements(mode, gridSize, result, word, k + 1,
                                              scanned.bestPlacement,
                                              scanned.maxIntersections)
                  IN  [bestPlacement |-> later.bestPlacement,
                       examined |-> <<here>> \o later.examined]

\* ChoosePlacement taking any cell and direction canPlaceWord accepts, whether
\* or not the word crosses a placement there
ChoosePlacementAnyLegalCell(mode, gridSize, result, word) ==
    LET legal == {c \in (0..(gridSize - 1)) \X (0..(gridSize - 1)) \X {"across", "down"} :
                     canPlaceWord(gridSize, result.grid, word, c[1], c[2], c[3])}
    IN  IF legal = {} THEN Null
        ELSE LET c == CHOOSE c \in legal : TRUE
             IN  [startRow |-> c[1], startCol |-> c[2], direction |-> c[3]]

\* ChoosePlacement scanning the candidates of the first placement only
ChoosePlacementFirstPlacementOnly(mode, gridSize, result, word) ==
    ScanCandidates(mode, Len(findIntersections(word, result.placements[1].word)),
                   getIntersectionPlacements(gridSize, result.grid, word,
                                             result.placements[1]),
                   1, Null, -1).bestPlacement

ChoosePlacement(mode, gridSize, result, word) ==
    ScanPlacements(mode, gridSize, result, word, 1, Null, -1).bestPlacement

\* the placements and candidates the scan for one word goes through
ExaminedCandidates(mode, gridSize, result, word) ==
    ScanPlacements(mode, gridSize, result, word, 1, Null, -1).examined

(***************************************************************************)
(* Inputs of the model: configurations and word lists.                     *)
(***************************************************************************)
\* an entry of the word list; a clue is the sequence of its characters
Entry(word) == [word |-> word, clue |-> <<"x">>]

WordLists ==
    { << Entry(<<"A","A","B">>), Entry(<<"B","B","A">>), Entry(<<"C","C","C","B">>) >>,
      << Entry(<<"C","A","B">>), Entry(<<"B","A">>), Entry(<<"A","C">>) >>,
      << Entry(<<"B","B","A">>), Entry(<<"C","C","A">>), Entry(<<"C","A","A">>) >>,
      << Entry(<<"A","B">>), Entry(<<"C","C">>) >> }

GridSizeConfigs ==
    { [default |-> MaxGridSize, min |-> 1, max |-> MaxGridSize],
      [default |-> 1, min |-> MaxGridSize - 1, max |-> MaxGridSize] }

GenerationConfigs ==
    [mode : {"maxOverlap", "random"},
     enforceAllWords : BOOLEAN,
     maxAttempts : {1, FewAttempts, ManyAttempts},
     timeoutSeconds : 1..MaxTimeoutSeconds]

Configs == [gridSize : GridSizeConfigs, generation : GenerationConfigs]

VARIABLES
    \* the CrosswordGenerator object
    config, gridSize, words, grid, placements, wordNumbers, currentNumber,
    \* Date.now(), in milliseconds
    now,
    \* where control is
    pc,
    \* locals of generateCrosswordWithSystematicAttempts
    startTime, seedCombinations, seedIndex, attempts, bestResult, bestScore,
    foundPerfectSolution,
    \* locals of generateSingleCrosswordWithSeed and of its filter pass
    result, wordsToPlace, placedSomething, filterIndex, kept,
    \* what generateCrosswordWithSystematicAttempts returned
    returned,
    \* history: one record per attempt started (its seed, the word list at
    \* that time, the order it took the words in, the Result it returned, and
    \* for each filter pass completed
    \* the length of wordsToPlace before and after it and placedSomething at
    \* its end), and the number of the attempt whose Result bestResult holds
    attemptLog, bestAttempt,
    \* a call of canPlaceWord on its own, and what it returned
    probe,
    \* the index of the word being edited (-1: none), and the last call of a
    \* handler of the word list, with what it logged
    editingIndex, lastCall,
    \* the number of handlers of the word list that have run since the search
    \* last gave control back to the page
    hostEvents

contextVars == <<config, gridSize, words, grid, placements, wordNumbers, currentNumber>>
searchVars == <<startTime, seedCombinations, seedIndex, attempts, bestResult, bestScore,
                foundPerfectSolution, returned, bestAttempt>>
attemptVars == <<result, wordsToPlace, placedSomething, filterIndex, kept>>
formVars == <<editingIndex, lastCall, hostEvents>>
vars == <<contextVars, now, pc, searchVars, attemptVars, attemptLog, probe, formVars>>

\* the arguments generateCrossword reads from the configuration
generationMode == config.generation.mode
enforceAllWords == config.generation.enforceAllWords
maxAttempts == config.generation.maxAttempts
timeoutSeconds == config.generation.timeoutSeconds
timeoutMs == timeoutSeconds * 1000
totalAttempts == IF enforceAllWords THEN maxAttempts ELSE 1

\* initializeGrid; MaxGridSize columns past the end of each row are kept, to
\* hold what a write past the end of a row stores there
initializeGrid(size) == NewGrid(size, MaxGridSize)

NoProbe == [called |-> FALSE]
\* no handler of the word list has been called yet
NoCall == [op |-> "none"]

Init ==
    /\ config \in Configs
    /\ gridSize = Max(config.gridSize.min, Min(config.gridSize.max, config.gridSize.default))
    /\ words \in {list \in WordLists :
                    \A k \in 1..Len(list) : Len(list[k].word) <= config.gridSize.max}
    /\ grid = initializeGrid(gridSize)
    /\ placements = <<>>
    /\ wordNumbers = <<>>
    /\ currentNumber = 1
    /\ now = 0
    /\ pc = "idle"
    /\ startTime = 0
    /\ seedCombinations = <<>>
    /\ seedIndex = 0
    /\ attempts = 0
    /\ bestResult = Null
    /\ bestScore = 0
    /\ foundPerfectSolution = FALSE
    /\ result = Null
    /\ wordsToPlace = <<>>
    /\ placedSomething = FALSE
    /\ filterIndex = 0
    /\ kept = <<>>
    /\ returned = Null
    /\ attemptLog = <<>>
    /\ bestAttempt = 0
    /\ probe = NoProbe
    /\ editingIndex = -1
    /\ lastCall = NoCall
    /\ hostEvents = 0

\* context.reset(), a fresh grid, no placement, no number
reset ==
    /\ grid' = initializeGrid(gridSize)
    /\ placements' = <<>>
    /\ wordNumbers' = <<>>
    /\ currentNumber' = 1

(***************************************************************************)
(* generateCrossword with at least 2 words, up to the for loop of          *)
(* generateCrosswordWithSystematicAttempts.                                *)
(***************************************************************************)
\* GenerateCrossword starting the search with a best score of 100, not 0
GenerateCrosswordBestScoreHundred ==
    /\ pc = "idle"
    /\ ~(Len(words) < 2)
    /\ startTime' = now
    /\ bestResult' = Null
    /\ bestScore' = 100
    /\ attempts' = 0
    /\ foundPerfectSolution' = FALSE
    /\ seedCombinations' \in generateSeedCombinations(words, gridSize, generationMode)
    /\ seedIndex' = 0
    /\ pc' = "loop"
    /\ UNCHANGED <<contextVars, now, attemptVars, returned, attemptLog, bestAttempt, probe, formVars>>

GenerateCrossword ==
    /\ pc = "idle"
    /\ ~(Len(words) < 2)
    /\ startTime' = now
    /\ bestResult' = Null
    /\ bestScore' = 0
    /\ attempts' = 0
    /\ foundPerfectSolution' = FALSE
    /\ seedCombinations' \in generateSeedCombinations(words, gridSize, generationMode)
    /\ seedIndex' = 0
    /\ pc' = "loop"
    /\ UNCHANGED <<contextVars, now, attemptVars, returned, attemptLog, bestAttempt, probe, formVars>>

\* the for loop's condition fails
LoopExit ==
    /\ pc = "loop"
    /\ ~(seedIndex < Len(seedCombinations) /\ attempts < totalAttempts)
    /\ pc' = "finish"
    /\ UNCHANGED <<contextVars, now, searchVars, attemptVars, attemptLog, probe, formVars>>

\* the timeout test at the top of the iteration breaks out of the loop
LoopTimeout ==
    /\ pc = "loop"
    /\ seedIndex < Len(seedCombinations) /\ attempts < totalAttempts
    /\ now - startTime > timeoutMs
    /\ pc' = "finish"
    /\ UNCHANGED <<contextVars, now, searchVars, attemptVars, attemptLog, probe, formVars>>

\* attempts % 10 === 0 && enforceAllWords, read after attempts++
YieldDue == (attempts + 1) % YieldEvery = 0 /\ enforceAllWords

\* LoopStartAttempt without the timeout test
LoopStartAttemptNoTimeoutTest ==
    /\ pc = "loop"
    /\ seedIndex < Len(seedCombinations) /\ attempts < totalAttempts
    /\ ~YieldDue
    /\ attempts' = attempts + 1
    /\ grid' = initializeGrid(gridSize)
    /\ placements' = <<>>
    /\ wordNumbers' = <<>>
    /\ currentNumber' = 1
    /\ attemptLog' = Append(attemptLog, [seedIndex |-> seedIndex, words |-> words, result |-> Null,
                                        passes |-> <<>>, order |-> <<>>])
    /\ pc' = "attempt"
    /\ UNCHANGED <<config, gridSize, words, now, startTime, seedCombinations, seedIndex,
                   bestResult, bestScore, foundPerfectSolution, returned, bestAttempt,
                   attemptVars, probe, formVars>>

\* LoopStartAttempt without the test of attempts against totalAttempts
LoopStartAttemptNoAttemptLimit ==
    /\ pc = "loop"
    /\ seedIndex < Len(seedCombinations)
    /\ ~(now - startTime > timeoutMs)
    /\ ~YieldDue
    /\ attempts' = attempts + 1
    /\ grid' = initializeGrid(gridSize)
    /\ placements' = <<>>
    /\ wordNumbers' = <<>>
    /\ currentNumber' = 1
    /\ attemptLog' = Append(attemptLog, [seedIndex |-> seedIndex, words |-> words, result |-> Null,
                                        passes |-> <<>>, order |-> <<>>])
    /\ pc' = "attempt"
    /\ UNCHANGED <<config, gridSize, words, now, startTime, seedCombinations, seedIndex,
                   bestResult, bestScore, foundPerfectSolution, returned, bestAttempt,
                   attemptVars, probe, formVars>>

\* the iteration goes on without an await: attempts++, context.reset()
LoopStartAttempt ==
    /\ pc = "loop"
    /\ seedIndex < Len(seedCombinations) /\ attempts < totalAttempts
    /\ ~(now - startTime > timeoutMs)
    /\ ~YieldDue
    /\ attempts' = attempts + 1
    /\ grid' = initializeGrid(gridSize)
    /\ placements' = <<>>
    /\ wordNumbers' = <<>>
    /\ currentNumber' = 1
    /\ attemptLog' = Append(attemptLog, [seedIndex |-> seedIndex, words |-> words, result |-> Null,
                                        passes |-> <<>>, order |-> <<>>])
    /\ pc' = "attempt"
    /\ UNCHANGED <<config, gridSize, words, now, startTime, seedCombinations, seedIndex,
                   bestResult, bestScore, foundPerfectSolution, returned, bestAttempt,
                   attemptVars, probe, formVars>>

\* the iteration reaches the await: attempts++, then the search gives control
\* back to the page until its timer of 1 ms fires
LoopYield ==
    /\ pc = "loop"
    /\ seedIndex < Len(seedCombinations) /\ attempts < totalAttempts
    /\ ~(now - startTime > timeoutMs)
    /\ YieldDue
    /\ attempts' = attempts + 1
    /\ hostEvents' = 0
    /\ pc' = "yield"
    /\ UNCHANGED <<contextVars, now, startTime, seedCombinations, seedIndex, bestResult,
                   bestScore, foundPerfectSolution, returned, bestAttempt, attemptVars,
                   attemptLog, probe, editingIndex, lastCall>>

\* the timer has fired: the iteration goes on with context.reset()
LoopResume ==
    /\ pc = "yield"
    /\ reset
    /\ attemptLog' = Append(attemptLog, [seedIndex |-> seedIndex, words |-> words, result |-> Null,
                                        passes |-> <<>>, order |-> <<>>])
    /\ pc' = "attempt"
    /\ UNCHANGED <<config, gridSize, words, now, searchVars, attemptVars, probe, formVars>>

(***************************************************************************)
(* generateSingleCrosswordWithSeed, up to the while loop: a fresh Result,  *)
(* the ordered words, the first word placed across at the start position.  *)
(***************************************************************************)
NewResult ==
    [placements |-> <<>>, placedWords |-> {}, grid |-> initializeGrid(gridSize),
     wordNumbers |-> <<>>, currentNumber |-> 1]

\* StartAttempt working on seed.wordOrder or context.words itself, not on a
\* copy: the shuffle and the shift change the list every holder of it sees
StartAttemptWithoutCopy ==
    /\ pc = "attempt"
    /\ LET seed == seedCombinations[seedIndex + 1]
           copied == IF "wordOrder" \in DOMAIN seed THEN seed.wordOrder ELSE words
           ordered == IF generationMode = "random"
                      THEN deterministicShuffle(copied, seed.wordOrderSeed)
                      ELSE copied
           firstWord == Head(ordered)
           startPos == IF "startingPosition" \in DOMAIN seed
                       THEN seed.startingPosition
                       ELSE [startRow |-> gridSize \div 2, startCol |-> gridSize \div 2]
           perOrder == Len(generateStartingPositionVariations(gridSize))
       IN  /\ Len(ordered) > 0
           /\ result' = placeWordForResult(NewResult, firstWord.word, firstWord.clue,
                                           startPos.startRow, startPos.startCol, "across")
           /\ wordsToPlace' = Tail(ordered)
           /\ placedSomething' = TRUE
           /\ pc' = "while"
           /\ seedCombinations' =
                 IF "wordOrder" \in DOMAIN seed
                 THEN [k \in DOMAIN seedCombinations |->
                          IF (k - 1) \div perOrder = seedIndex \div perOrder
                          THEN [seedCombinations[k] EXCEPT !.wordOrder = Tail(ordered)]
                          ELSE seedCombinations[k]]
                 ELSE seedCombinations
           /\ words' = IF "wordOrder" \in DOMAIN seed THEN words ELSE Tail(ordered)
           /\ attemptLog' = [attemptLog EXCEPT ![Len(attemptLog)].order = ordered]
    /\ UNCHANGED <<config, gridSize, grid, placements, wordNumbers, currentNumber, now,
                   startTime, seedIndex, attempts, bestResult, bestScore,
                   foundPerfectSolution, returned, bestAttempt, filterIndex, kept,
                   probe, formVars>>

\* StartAttempt taking the first word off seed.wordOrder itself, not off a copy
StartAttemptShiftingSeed ==
    /\ pc = "attempt"
    /\ LET seed == seedCombinations[seedIndex + 1]
           copied == IF "wordOrder" \in DOMAIN seed THEN seed.wordOrder ELSE words
           ordered == IF generationMode = "random"
                      THEN deterministicShuffle(copied, seed.wordOrderSeed)
                      ELSE copied
           firstWord == Head(ordered)
           startPos == IF "startingPosition" \in DOMAIN seed
                       THEN seed.startingPosition
                       ELSE [startRow |-> gridSize \div 2, startCol |-> gridSize \div 2]
       IN  /\ Len(ordered) > 0
           /\ result' = placeWordForResult(NewResult, firstWord.word, firstWord.clue,
                                           startPos.startRow, startPos.startCol, "across")
           /\ wordsToPlace' = Tail(ordered)
           /\ placedSomething' = TRUE
           /\ pc' = "while"
           /\ seedCombinations' =
                 IF "wordOrder" \in DOMAIN seed
                 THEN [seedCombinations EXCEPT ![seedIndex + 1].wordOrder = Tail(ordered)]
                 ELSE seedCombinations
           /\ attemptLog' = [attemptLog EXCEPT ![Len(attemptLog)].order = ordered]
    /\ UNCHANGED <<contextVars, now, startTime, seedIndex, attempts, bestResult, bestScore,
                   foundPerfectSolution, returned, bestAttempt, filterIndex, kept,
                   probe, formVars>>

\* StartAttempt shuffling the words with seed.randomSeed, not seed.wordOrderSeed
StartAttemptShufflingByRandomSeed ==
    /\ pc = "attempt"
    /\ LET seed == seedCombinations[seedIndex + 1]
           copied == IF "wordOrder" \in DOMAIN seed THEN seed.wordOrder ELSE words
           ordered == IF generationMode = "random"
                      THEN deterministicShuffle(copied, seed.randomSeed)
                      ELSE copied
           firstWord == Head(ordered)
           startPos == IF "startingPosition" \in DOMAIN seed
                       THEN seed.startingPosition
                       ELSE [startRow |-> gridSize \div 2, startCol |-> gridSize \div 2]
       IN  IF Len(ordered) = 0
           THEN /\ result' = NewResult
                /\ wordsToPlace' = ordered
                /\ attemptLog' = [attemptLog EXCEPT ![Len(attemptLog)].result = NewResult,
                                                    ![Len(attemptLog)].order = ordered]
                /\ pc' = "evaluate"
                /\ UNCHANGED placedSomething
           ELSE /\ result' = placeWordForResult(NewResult, firstWord.word, firstWord.clue,
                                                startPos.startRow, startPos.startCol, "across")
                /\ wordsToPlace' = Tail(ordered)
                /\ placedSomething' = TRUE
                /\ pc' = "while"
                /\ attemptLog' = [attemptLog EXCEPT ![Len(attemptLog)].order = ordered]
    /\ UNCHANGED <<contextVars, now, searchVars, filterIndex, kept, probe, formVars>>

StartAttempt ==
    /\ pc = "attempt"
    /\ LET seed == seedCombinations[seedIndex + 1]
           copied == IF "wordOrder" \in DOMAIN seed THEN seed.wordOrder ELSE words
           ordered == IF generationMode = "random"
                      THEN deterministicShuffle(copied, seed.wordOrderSeed)
                      ELSE copied
           firstWord == Head(ordered)
           startPos == IF "startingPosition" \in DOMAIN seed
                       THEN seed.startingPosition
                       ELSE [startRow |-> gridSize \div 2, startCol |-> gridSize \div 2]
       IN  IF Len(ordered) = 0
           THEN /\ result' = NewResult
                /\ wordsToPlace' = ordered
                /\ attemptLog' = [attemptLog EXCEPT ![Len(attemptLog)].result = NewResult,
                                                    ![Len(attemptLog)].order = ordered]
                /\ pc' = "evaluate"
                /\ UNCHANGED placedSomething
           ELSE /\ result' = placeWordForResult(NewResult, firstWord.word, firstWord.clue,
                                                startPos.startRow, startPos.startCol, "across")
                /\ wordsToPlace' = Tail(ordered)
                /\ placedSomething' = TRUE
                /\ pc' = "while"
                /\ attemptLog' = [attemptLog EXCEPT ![Len(attemptLog)].order = ordered]
    /\ UNCHANGED <<contextVars, now, searchVars, filterIndex, kept, probe, formVars>>

\* the while loop's condition holds: a filter pass over wordsToPlace begins
BeginPass ==
    /\ pc = "while"
    /\ placedSomething /\ Len(wordsToPlace) > 0
    /\ placedSomething' = FALSE
    /\ filterIndex' = 0
    /\ kept' = <<>>
    /\ pc' = "filter"
    /\ UNCHANGED <<contextVars, now, searchVars, result, wordsToPlace, attemptLog, probe, formVars>>

\* FilterWord returning true for a word it has just placed: the word stays in
\* wordsToPlace until the next pass
FilterWordKeepingPlacedWord ==
    /\ pc = "filter"
    /\ filterIndex < Len(wordsToPlace)
    /\ LET wordObj == wordsToPlace[filterIndex + 1]
           bestPlacement == ChoosePlacement(generationMode, gridSize, result, wordObj.word)
       IN  IF wordObj.word \in result.placedWords
           THEN UNCHANGED <<result, placedSomething, kept>>
           ELSE IF bestPlacement # Null
           THEN /\ result' = placeWordForResult(result, wordObj.word, wordObj.clue,
                                                bestPlacement.startRow, bestPlacement.startCol,
                                                bestPlacement.direction)
                /\ placedSomething' = TRUE
                /\ kept' = Append(kept, wordObj)
           ELSE /\ kept' = Append(kept, wordObj)
                /\ UNCHANGED <<result, placedSomething>>
    /\ filterIndex' = filterIndex + 1
    /\ UNCHANGED <<contextVars, now, pc, searchVars, wordsToPlace, attemptLog, probe, formVars>>

\* the filter callback on wordsToPlace[filterIndex]
FilterWord ==
    /\ pc = "filter"
    /\ filterIndex < Len(wordsToPlace)
    /\ LET wordObj == wordsToPlace[filterIndex + 1]
           bestPlacement == ChoosePlacement(generationMode, gridSize, result, wordObj.word)
       IN  IF wordObj.word \in result.placedWords
           THEN UNCHANGED <<result, placedSomething, kept>>
           ELSE IF bestPlacement # Null
           THEN /\ result' = placeWordForResult(result, wordObj.word, wordObj.clue,
                                                bestPlacement.startRow, bestPlacement.startCol,
                                                bestPlacement.direction)
                /\ placedSomething' = TRUE
                /\ UNCHANGED kept
           ELSE /\ kept' = Append(kept, wordObj)
                /\ UNCHANGED <<result, placedSomething>>
    /\ filterIndex' = filterIndex + 1
    /\ UNCHANGED <<contextVars, now, pc, searchVars, wordsToPlace, attemptLog, probe, formVars>>

\* the filter pass is over: wordsToPlace becomes the words it kept
EndPass ==
    /\ pc = "filter"
    /\ filterIndex = Len(wordsToPlace)
    /\ wordsToPlace' = kept
    /\ attemptLog' = [attemptLog EXCEPT ![Len(attemptLog)].passes =
                         Append(@, [before |-> Len(wordsToPlace), after |-> Len(kept),
                                    placedSomething |-> placedSomething])]
    /\ pc' = "while"
    /\ UNCHANGED <<contextVars, now, searchVars, result, placedSomething, filterIndex, kept,
                   probe, formVars>>

\* the while loop's condition fails: the attempt returns result
EndAttempt ==
    /\ pc = "while"
    /\ ~(placedSomething /\ Len(wordsToPlace) > 0)
    /\ attemptLog' = [attemptLog EXCEPT ![Len(attemptLog)].result = result]
    /\ pc' = "evaluate"
    /\ UNCHANGED <<contextVars, now, searchVars, attemptVars, probe, formVars>>

(***************************************************************************)
(* The rest of the loop body: the score, the perfect-solution test, the    *)
(* comparison with the best score; then seedIndex++.                       *)
(***************************************************************************)
\* EvaluatePerfect going on to the next seed instead of breaking
EvaluatePerfectNoBreak ==
    /\ pc = "evaluate"
    /\ Cardinality(result.placedWords) = Len(words)
    /\ bestResult' = result
    /\ bestAttempt' = attempts
    /\ foundPerfectSolution' = TRUE
    /\ seedIndex' = seedIndex + 1
    /\ pc' = "loop"
    /\ UNCHANGED <<contextVars, now, startTime, seedCombinations, attempts, bestScore,
                   returned, attemptVars, attemptLog, probe, formVars>>

EvaluatePerfect ==
    /\ pc = "evaluate"
    /\ Cardinality(result.placedWords) = Len(words)
    /\ bestResult' = result
    /\ bestAttempt' = attempts
    /\ foundPerfectSolution' = TRUE
    /\ pc' = "finish"
    /\ UNCHANGED <<contextVars, now, startTime, seedCombinations, seedIndex, attempts,
                   bestScore, returned, attemptVars, attemptLog, probe, formVars>>

\* EvaluateBetter adopting a Result whose score equals the best score too
EvaluateBetterOrEqual ==
    /\ pc = "evaluate"
    /\ ~(Cardinality(result.placedWords) = Len(words))
    /\ scoreCrosswordResult(result) >= bestScore
    /\ bestScore' = scoreCrosswordResult(result)
    /\ bestResult' = result
    /\ bestAttempt' = attempts
    /\ seedIndex' = seedIndex + 1
    /\ pc' = "loop"
    /\ UNCHANGED <<contextVars, now, startTime, seedCombinations, attempts,
                   foundPerfectSolution, returned, attemptVars, attemptLog, probe, formVars>>

EvaluateBetter ==
    /\ pc = "evaluate"
    /\ ~(Cardinality(result.placedWords) = Len(words))
    /\ scoreCrosswordResult(result) > bestScore
    /\ bestScore' = scoreCrosswordResult(result)
    /\ bestResult' = result
    /\ bestAttempt' = attempts
    /\ seedIndex' = seedIndex + 1
    /\ pc' = "loop"
    /\ UNCHANGED <<contextVars, now, startTime, seedCombinations, attempts,
                   foundPerfectSolution, returned, attemptVars, attemptLog, probe, formVars>>

EvaluateNotBetter ==
    /\ pc = "evaluate"
    /\ ~(Cardinality(result.placedWords) = Len(words))
    /\ ~(scoreCrosswordResult(result) > bestScore)
    /\ seedIndex' = seedIndex + 1
    /\ pc' = "loop"
    /\ UNCHANGED <<contextVars, now, startTime, seedCombinations, attempts, bestResult,
                   bestScore, foundPerfectSolution, returned, bestAttempt, attemptVars,
                   attemptLog, probe, formVars>>

(***************************************************************************)
(* After the loop: applyGenerationResult(bestResult) if there is one, and  *)
(* the return.  timeElapsed is kept in milliseconds (the source formats it *)
(* in seconds with one decimal).                                           *)
(***************************************************************************)
\* Finish applying the Result of the last attempt run, not the best one
FinishApplyingLastResult ==
    /\ pc = "finish"
    /\ IF bestResult # Null
       THEN /\ grid' = result.grid
            /\ placements' = result.placements
            /\ wordNumbers' = result.wordNumbers
            /\ currentNumber' = result.currentNumber
       ELSE UNCHANGED <<grid, placements, wordNumbers, currentNumber>>
    /\ returned' = [bestResult |-> bestResult, attempts |-> attempts,
                    foundPerfectSolution |-> foundPerfectSolution,
                    timeElapsed |-> now - startTime]
    /\ pc' = "done"
    /\ UNCHANGED <<config, gridSize, words, now, startTime, seedCombinations, seedIndex,
                   attempts, bestResult, bestScore, foundPerfectSolution, bestAttempt,
                   attemptVars, attemptLog, probe, formVars>>

\* Finish returning the flag as true whenever there is a best Result
FinishFlaggingAnyResult ==
    /\ pc = "finish"
    /\ IF bestResult # Null
       THEN /\ grid' = bestResult.grid
            /\ placements' = bestResult.placements
            /\ wordNumbers' = bestResult.wordNumbers
            /\ currentNumber' = bestResult.currentNumber
       ELSE UNCHANGED <<grid, placements, wordNumbers, currentNumber>>
    /\ returned' = [bestResult |-> bestResult, attempts |-> attempts,
                    foundPerfectSolution |-> (bestResult # Null),
                    timeElapsed |-> now - startTime]
    /\ pc' = "done"
    /\ UNCHANGED <<config, gridSize, words, now, startTime, seedCombinations, seedIndex,
                   attempts, bestResult, bestScore, foundPerfectSolution, bestAttempt,
                   attemptVars, attemptLog, probe, formVars>>

Finish ==
    /\ pc = "finish"
    /\ IF bestResult # Null
       THEN /\ grid' = bestResult.grid
            /\ placements' = bestResult.placements
            /\ wordNumbers' = bestResult.wordNumbers
            /\ currentNumber' = bestResult.currentNumber
       ELSE UNCHANGED <<grid, placements, wordNumbers, currentNumber>>
    /\ returned' = [bestResult |-> bestResult, attempts |-> attempts,
                    foundPerfectSolution |-> foundPerfectSolution,
                    timeElapsed |-> now - startTime]
    /\ pc' = "done"
    /\ UNCHANGED <<config, gridSize, words, now, startTime, seedCombinations, seedIndex,
                   attempts, bestResult, bestScore, foundPerfectSolution, bestAttempt,
                   attemptVars, attemptLog, probe, formVars>>

(***************************************************************************)
(* The clock: Date.now() does not go back, and may have moved on between   *)
(* any two steps of the search.  Once the deadline has passed, no later    *)
(* reading of the clock changes what the search does.                      *)
(***************************************************************************)
Tick ==
    /\ pc \notin {"idle", "done"}
    /\ now - startTime <= timeoutMs
    /\ now' = now + ClockStep
    /\ UNCHANGED <<contextVars, pc, searchVars, attemptVars, attemptLog, probe, formVars>>

(***************************************************************************)
(* The word list: addWord, editWord, cancelEdit, removeWord, clearAll and  *)
(* generateCrossword with fewer than 2 words.  What the user typed is a    *)
(* sequence of characters; a stored word is the sequence of its letters.   *)
(* An array index that was never assigned is a hole: it counts in the      *)
(* array's length, and some() and map() pass over it.                      *)
(***************************************************************************)
Hole == [hole |-> TRUE]

LowerAlphabet ==
    << "a", "b", "c", "d", "e", "f", "g", "h", "i", "j", "k", "l", "m",
       "n", "o", "p", "q", "r", "s", "t", "u", "v", "w", "x", "y", "z" >>

\* String.prototype.toUpperCase, character by character
toUpperCase(str) ==
    [k \in 1..Len(str) |->
        IF \E m \in 1..Len(LowerAlphabet) : LowerAlphabet[m] = str[k]
        THEN Alphabet[CHOOSE m \in 1..Len(LowerAlphabet) : LowerAlphabet[m] = str[k]]
        ELSE str[k]]

\* String.prototype.trim: the spaces at both ends go
RECURSIVE trimStart(_)
trimStart(str) ==
    IF str # <<>> /\ Head(str) = " " THEN trimStart(Tail(str)) ELSE str

RECURSIVE trimEnd(_)
trimEnd(str) ==
    IF str # <<>> /\ str[Len(str)] = " " THEN trimEnd(SubSeq(str, 1, Len(str) - 1)) ELSE str

trim(str) == trimEnd(trimStart(str))

\* /^[A-Z]+$/.test(word)
OnlyLetters(word) == word # <<>> /\ \A k \in 1..Len(word) : word[k] \in Letters

\* this.words.some((w, index) => w.word === word && index !== this.editingIndex)
AlreadyAdded(list, word, editing) ==
    \E index \in 0..(Len(list) - 1) :
        list[index + 1] # Hole /\ list[index + 1].word = word /\ index # editing

\* array[index] = value, the array growing (with holes) up to the index
SetAt(array, index, value) ==
    [k \in 1..Max(Len(array), index + 1) |->
        IF k = index + 1 THEN value ELSE IF k <= Len(array) THEN array[k] ELSE Hole]

\* array.splice(index, 1)
RemoveAt(array, index) == SubSeq(array, 1, index) \o SubSeq(array, index + 2, Len(array))

\* values of the word input and of the clue input
WordInputs ==
    { <<>>, <<" ">>, <<"a">>, <<" ", "B", " ">>, <<"a", "B">>, <<"B", "a">>,
      <<"a", "1">>, <<"a", " ", "B">>, [k \in 1..(MaxWordLength + 1) |-> "a"] }
ClueInputs == { <<>>, <<" ">>, <<" ", "x">> }

WordListConfigs ==
    [gridSize : {[default |-> MaxWordLength, min |-> 1, max |-> MaxWordLength]},
     generation : [mode : {"maxOverlap"}, enforceAllWords : {TRUE},
                   maxAttempts : {1}, timeoutSeconds : {1}]]

WordListInit ==
    /\ config \in WordListConfigs
    /\ gridSize = Max(config.gridSize.min, Min(config.gridSize.max, config.gridSize.default))
    /\ words = <<>>
    /\ grid = initializeGrid(gridSize)
    /\ placements = <<>>
    /\ wordNumbers = <<>>
    /\ currentNumber = 1
    /\ now = 0
    /\ pc = "idle"
    /\ startTime = 0
    /\ seedCombinations = <<>>
    /\ seedIndex = 0
    /\ attempts = 0
    /\ bestResult = Null
    /\ bestScore = 0
    /\ foundPerfectSolution = FALSE
    /\ result = Null
    /\ wordsToPlace = <<>>
    /\ placedSomething = FALSE
    /\ filterIndex = 0
    /\ kept = <<>>
    /\ returned = Null
    /\ attemptLog = <<>>
    /\ bestAttempt = 0
    /\ probe = NoProbe
    /\ editingIndex = -1
    /\ lastCall = NoCall
    /\ hostEvents = 0

\* the record of a call of addWord: the two inputs, the index being edited
\* when it was called, and what it logged ("" when it stored the word)
AddWordCall(wordInput, clueInput, logged) ==
    [op |-> "addWord", wordInput |-> wordInput, clueInput |-> clueInput,
     editingIndex |-> editingIndex, logged |-> logged]

\* the end of addWord: the entry is stored, at the index being edited or at
\* the end of the list
StoreWord(wordInput, clueInput) ==
    LET word == toUpperCase(trim(wordInput))
        clue == trim(clueInput)
    IN  /\ IF editingIndex >= 0
           THEN /\ words' = SetAt(words, editingIndex, [word |-> word, clue |-> clue])
                /\ editingIndex' = -1
           ELSE /\ Len(words) < MaxWords
                /\ words' = Append(words, [word |-> word, clue |-> clue])
                /\ UNCHANGED editingIndex
        /\ lastCall' = AddWordCall(wordInput, clueInput, "")

\* addWord returning early: only the message is logged
RejectWord(wordInput, clueInput, logged) ==
    /\ lastCall' = AddWordCall(wordInput, clueInput, logged)
    /\ UNCHANGED <<words, editingIndex>>

\* A handler of the word list runs when no search is running, or while the
\* search waits at its await: the Enter and Escape keys of the two inputs and
\* the Edit and Remove buttons of the list stay enabled during a search
\* (setButtonsDisabled disables the other buttons only).
HandlerRuns ==
    /\ \/ pc \in {"idle", "done"}
       \/ pc = "yield" /\ hostEvents < MaxYieldEvents
    /\ hostEvents' = IF pc = "yield" THEN hostEvents + 1 ELSE hostEvents

\* what the handlers of the word list leave alone (clearAll resets the grid)
wordListFrame ==
    <<config, gridSize, grid, placements, wordNumbers, currentNumber, now, pc, searchVars,
      attemptVars, attemptLog, probe>>

\* addWord without the test that the word is made of letters only
AddWordNoLetterTest(wordInput, clueInput) ==
    /\ HandlerRuns
    /\ LET word == toUpperCase(trim(wordInput))
           clue == trim(clueInput)
       IN  IF word = <<>> \/ clue = <<>>
           THEN RejectWord(wordInput, clueInput, "Please enter both word and clue")
           ELSE IF Len(word) > config.gridSize.max
           THEN RejectWord(wordInput, clueInput, "Word must be gridSize.max characters or less")
           ELSE IF AlreadyAdded(words, word, editingIndex)
           THEN RejectWord(wordInput, clueInput, "Word already added")
           ELSE StoreWord(wordInput, clueInput)
    /\ UNCHANGED wordListFrame

\* addWord without the test that the word is not in the list yet
AddWordNoDuplicateTest(wordInput, clueInput) ==
    /\ HandlerRuns
    /\ LET word == toUpperCase(trim(wordInput))
           clue == trim(clueInput)
       IN  IF word = <<>> \/ clue = <<>>
           THEN RejectWord(wordInput, clueInput, "Please enter both word and clue")
           ELSE IF Len(word) > config.gridSize.max
           THEN RejectWord(wordInput, clueInput, "Word must be gridSize.max characters or less")
           ELSE IF ~OnlyLetters(word)
           THEN RejectWord(wordInput, clueInput, "Word must contain only letters")
           ELSE StoreWord(wordInput, clueInput)
    /\ UNCHANGED wordListFrame

addWord(wordInput, clueInput) ==
    /\ HandlerRuns
    /\ LET word == toUpperCase(trim(wordInput))
           clue == trim(clueInput)
       IN  IF word = <<>> \/ clue = <<>>
           THEN RejectWord(wordInput, clueInput, "Please enter both word and clue")
           ELSE IF Len(word) > config.gridSize.max
           THEN RejectWord(wordInput, clueInput, "Word must be gridSize.max characters or less")
           ELSE IF ~OnlyLetters(word)
           THEN RejectWord(wordInput, clueInput, "Word must contain only letters")
           ELSE IF AlreadyAdded(words, word, editingIndex)
           THEN RejectWord(wordInput, clueInput, "Word already added")
           ELSE StoreWord(wordInput, clueInput)
    /\ UNCHANGED wordListFrame

AddWord ==
    \E wordInput \in WordInputs, clueInput \in ClueInputs : addWord(wordInput, clueInput)

\* the indexes that have an Edit and a Remove button: map() passes over holes
Rendered == {index \in 0..(Len(words) - 1) : words[index + 1] # Hole}

editWord(index) ==
    /\ HandlerRuns
    /\ editingIndex' = index
    /\ lastCall' = [op |-> "editWord", index |-> index]
    /\ UNCHANGED <<words, wordListFrame>>

EditWord == \E index \in Rendered : editWord(index)

\* the Escape key in an input, while a word is being edited
CancelEdit ==
    /\ HandlerRuns
    /\ editingIndex >= 0
    /\ editingIndex' = -1
    /\ lastCall' = [op |-> "cancelEdit"]
    /\ UNCHANGED <<words, wordListFrame>>

removeWord(index) ==
    /\ HandlerRuns
    /\ editingIndex' = IF editingIndex = index THEN -1
                       ELSE IF editingIndex > index THEN editingIndex - 1
                       ELSE editingIndex
    /\ words' = RemoveAt(words, index)
    /\ lastCall' = [op |-> "removeWord", index |-> index]
    /\ UNCHANGED wordListFrame

RemoveWord == \E index \in Rendered : removeWord(index)

clearAll ==
    /\ pc \in {"idle", "done"}
    /\ words' = <<>>
    /\ reset
    /\ lastCall' = [op |-> "clearAll"]
    /\ UNCHANGED <<config, gridSize, now, pc, searchVars, attemptVars, attemptLog, probe,
                   editingIndex, hostEvents>>

\* generateCrossword with fewer than 2 words, calling reset() before the test
GenerateCrosswordResettingFirst ==
    /\ pc \in {"idle", "done"}
    /\ Len(words) < 2
    /\ reset
    /\ lastCall' = [op |-> "generateCrossword",
                    logged |-> "Need at least 2 words to generate crossword"]
    /\ UNCHANGED <<config, gridSize, words, now, pc, searchVars, attemptVars, attemptLog,
                   probe, editingIndex, hostEvents>>

\* generateCrossword with fewer than 2 words: it logs and returns
GenerateCrosswordTooFewWords ==
    /\ pc \in {"idle", "done"}
    /\ Len(words) < 2
    /\ lastCall' = [op |-> "generateCrossword",
                    logged |-> "Need at least 2 words to generate crossword"]
    /\ UNCHANGED <<contextVars, now, pc, searchVars, attemptVars, attemptLog, probe,
                   editingIndex, hostEvents>>

\* removeWord once the search has returned
RemoveWordAfterSearch == pc = "done" /\ RemoveWord

Next ==
    \/ GenerateCrossword
    \/ LoopExit
    \/ LoopTimeout
    \/ LoopStartAttempt
    \/ StartAttempt
    \/ BeginPass
    \/ FilterWord
    \/ EndPass
    \/ EndAttempt
    \/ EvaluatePerfect
    \/ EvaluateBetter
    \/ EvaluateNotBetter
    \/ Finish
    \/ Tick
    \/ RemoveWordAfterSearch
    \/ GenerateCrosswordTooFewWords

Spec == Init /\ [][Next]_vars

(***************************************************************************)
(* canPlaceWord on its own: one call on a grid of side ProbeGridSize with  *)
(* at most ProbeMaxFilled letters anywhere, for every word of 1 to         *)
(* ProbeGridSize letters, every start cell of the grid and both            *)
(* directions.                                                             *)
(***************************************************************************)
ProbeLetters == {"A", "B"}
ProbeCells == (0..(ProbeGridSize - 1)) \X (0..(ProbeGridSize - 1))
ProbeWords == UNION {[1..n -> ProbeLetters] : n \in 1..ProbeGridSize}

ProbeInit ==
    /\ Init
    /\ config = [gridSize |-> [default |-> MaxGridSize, min |-> 1, max |-> MaxGridSize],
                 generation |-> [mode |-> "maxOverlap", enforceAllWords |-> TRUE,
                                 maxAttempts |-> 1, timeoutSeconds |-> 1]]
    /\ Len(words) = 2

ProbeCanPlaceWord ==
    /\ pc = "idle"
    /\ probe = NoProbe
    /\ \E filled \in {cells \in SUBSET ProbeCells : Cardinality(cells) <= ProbeMaxFilled} :
       \E letters \in [filled -> ProbeLetters] :
       \E word \in ProbeWords :
       \E startRow \in 0..(ProbeGridSize - 1), startCol \in 0..(ProbeGridSize - 1) :
       \E direction \in {"across", "down"} :
          LET probeGrid == [row \in 0..(ProbeGridSize - 1) |->
                              [col \in 0..(ProbeGridSize - 1) |->
                                  IF <<row, col>> \in filled
                                  THEN letters[<<row, col>>] ELSE Empty]]
          IN  probe' = [called |-> TRUE, gridSize |-> ProbeGridSize, grid |-> probeGrid,
                        word |-> word, startRow |-> startRow, startCol |-> startCol,
                        direction |-> direction,
                        returned |-> canPlaceWord(ProbeGridSize, probeGrid, word,
                                                  startRow, startCol, direction)]
    /\ UNCHANGED <<contextVars, now, pc, searchVars, attemptVars, attemptLog, formVars>>

SpecCanPlaceWord == ProbeInit /\ [][ProbeCanPlaceWord]_vars

(***************************************************************************)
(* generateSingleCrosswordWithSeed on its own: reset(), then one call with *)
(* a seed of the list generateSeedCombinations builds, then reset() and    *)
(* the same call again, up to MaxRuns calls.  The configurations add the   *)
(* default 25 x 25 grid, the word lists add CAT, TIGER, DOG.  A second     *)
(* specification makes the same calls on AB, BC, ABC, a list in which one  *)
(* word holds another.                                                     *)
(***************************************************************************)
ExampleWords ==
    << Entry(<<"C","A","T">>), Entry(<<"T","I","G","E","R">>), Entry(<<"D","O","G">>) >>

NestedWords ==
    << Entry(<<"A","B">>), Entry(<<"B","C">>), Entry(<<"A","B","C">>) >>

SingleAttemptConfigs ==
    [gridSize : GridSizeConfigs \cup {[default |-> DefaultGridSize, min |-> 10, max |-> 50]},
     generation : [mode : {"maxOverlap", "random"}, enforceAllWords : {TRUE},
                   maxAttempts : {1}, timeoutSeconds : {1}]]

SingleAttemptInitOn(lists) ==
    /\ config \in SingleAttemptConfigs
    /\ gridSize = Max(config.gridSize.min, Min(config.gridSize.max, config.gridSize.default))
    /\ words \in {list \in lists :
                    \A k \in 1..Len(list) : Len(list[k].word) <= config.gridSize.max}
    /\ grid = initializeGrid(gridSize)
    /\ placements = <<>>
    /\ wordNumbers = <<>>
    /\ currentNumber = 1
    /\ now = 0
    /\ pc = "idle"
    /\ startTime = 0
    /\ seedCombinations = <<>>
    /\ seedIndex = 0
    /\ attempts = 0
    /\ bestResult = Null
    /\ bestScore = 0
    /\ foundPerfectSolution = FALSE
    /\ result = Null
    /\ wordsToPlace = <<>>
    /\ placedSomething = FALSE
    /\ filterIndex = 0
    /\ kept = <<>>
    /\ returned = Null
    /\ attemptLog = <<>>
    /\ bestAttempt = 0
    /\ probe = NoProbe
    /\ editingIndex = -1
    /\ lastCall = NoCall
    /\ hostEvents = 0

SingleAttemptInit == SingleAttemptInitOn(WordLists \cup {ExampleWords})

\* the first call: any seed of the generated list
CallSingleAttempt ==
    /\ pc = "idle"
    /\ attemptLog = <<>>
    /\ seedCombinations' \in generateSeedCombinations(words, gridSize, generationMode)
    /\ seedIndex' \in 0..(Len(seedCombinations') - 1)
    /\ reset
    /\ attemptLog' = <<[seedIndex |-> seedIndex', words |-> words, result |-> Null,
                        passes |-> <<>>, order |-> <<>>]>>
    /\ pc' = "attempt"
    /\ UNCHANGED <<config, gridSize, words, now, startTime, attempts, bestResult, bestScore,
                   foundPerfectSolution, returned, bestAttempt, attemptVars, probe, formVars>>

\* the call has returned: reset(), and the same call again
CallSingleAttemptAgain ==
    /\ pc = "evaluate"
    /\ Len(attemptLog) < MaxRuns
    /\ reset
    /\ attemptLog' = Append(attemptLog, [seedIndex |-> seedIndex, words |-> words, result |-> Null,
                                        passes |-> <<>>, order |-> <<>>])
    /\ pc' = "attempt"
    /\ UNCHANGED <<config, gridSize, words, now, searchVars, attemptVars, probe, formVars>>

SingleAttemptNext ==
    \/ CallSingleAttempt
    \/ CallSingleAttemptAgain
    \/ StartAttempt
    \/ BeginPass
    \/ FilterWord
    \/ EndPass
    \/ EndAttempt

SpecSingleAttempt == SingleAttemptInit /\ [][SingleAttemptNext]_vars

NestedWordsInit == SingleAttemptInitOn({NestedWords})

SpecNestedWords == NestedWordsInit /\ [][SingleAttemptNext]_vars

\* Control inside the call moves on.  Every step of the call (StartAttempt,
\* BeginPass, FilterWord, EndPass, EndAttempt) changes pc or filterIndex, and
\* while control is inside the call no other step does.
ControlMoves ==
    /\ pc \in {"attempt", "while", "filter"}
    /\ \E next \in {"while", "filter", "evaluate"}, index \in 0..Len(words) :
          /\ pc' = next
          /\ filterIndex' = index
          /\ <<next, index>> # <<pc, filterIndex>>

\* the call is synchronous code: once started it runs to its return, so the
\* steps of the call are weakly fair; the caller need not call again
FairSpecSingleAttempt == SpecSingleAttempt /\ WF_<<pc, filterIndex>>(ControlMoves)

(***************************************************************************)
(* findIntersections and getIntersectionPlacements on their own.  One call *)
(* of findIntersections on two words.  One call of                         *)
(* getIntersectionPlacements on a grid of side ProbeGridSize holding one   *)
(* placement (a down word inside the grid, or an across word starting at   *)
(* any cell, as the first word of an attempt does) and at most one other   *)
(* letter, an A: exchanging A and B in the two words gives the calls with  *)
(* a B.  The new word has at most ProbeNewWordLength letters.              *)
(***************************************************************************)
EngineWords == ProbeWords \cup {ExampleWords[k].word : k \in 1..Len(ExampleWords)}

ProbeFindIntersections ==
    /\ pc = "idle"
    /\ probe = NoProbe
    /\ \E word1 \in EngineWords, word2 \in EngineWords :
          probe' = [called |-> TRUE, op |-> "findIntersections",
                    word1 |-> word1, word2 |-> word2,
                    returned |-> findIntersections(word1, word2)]
    /\ UNCHANGED <<contextVars, now, pc, searchVars, attemptVars, attemptLog, formVars>>

\* the placements a grid of side ProbeGridSize can hold on its own
ProbePlacements ==
    {p \in [word : ProbeWords, clue : {<<"x">>}, startRow : 0..(ProbeGridSize - 1),
            startCol : 0..(ProbeGridSize - 1), direction : {"across", "down"},
            number : {1}] :
        p.direction = "down" => p.startRow + Len(p.word) <= ProbeGridSize}

ProbeGetIntersectionPlacements ==
    /\ pc = "idle"
    /\ probe = NoProbe
    /\ \E existingPlacement \in ProbePlacements :
       \E placed \in {placeWordForResult(
                          [placements |-> <<>>, placedWords |-> {},
                           grid |-> NewGrid(ProbeGridSize, ProbeGridSize),
                           wordNumbers |-> <<>>, currentNumber |-> 1],
                          existingPlacement.word, existingPlacement.clue,
                          existingPlacement.startRow, existingPlacement.startCol,
                          existingPlacement.direction)} :
       \E other \in {Null} \cup [cell : ProbeCells, letter : {"A"}] :
       \E probeGrid \in {[row \in DOMAIN placed.grid |->
                             [col \in DOMAIN placed.grid[row] |->
                                 IF /\ other # Null
                                    /\ other.cell = <<row, col>>
                                    /\ placed.grid[row][col] = Empty
                                 THEN other.letter ELSE placed.grid[row][col]]]} :
       \E newWord \in {word \in ProbeWords : Len(word) <= ProbeNewWordLength} :
          probe' = [called |-> TRUE, op |-> "getIntersectionPlacements",
                    gridSize |-> ProbeGridSize, grid |-> probeGrid,
                    newWord |-> newWord, existingPlacement |-> existingPlacement,
                    returned |-> getIntersectionPlacements(ProbeGridSize, probeGrid,
                                                           newWord, existingPlacement)]
    /\ UNCHANGED <<contextVars, now, pc, searchVars, attemptVars, attemptLog, formVars>>

PlacementEngineNext ==
    \/ ProbeFindIntersections
    \/ ProbeGetIntersectionPlacements

SpecPlacementEngine == ProbeInit /\ [][PlacementEngineNext]_vars

WordListNext ==
    \/ AddWord
    \/ EditWord
    \/ CancelEdit
    \/ RemoveWord
    \/ clearAll
    \/ GenerateCrosswordTooFewWords

SpecWordList == WordListInit /\ [][WordListNext]_vars

(***************************************************************************)
(* The search past its first await.  In random mode with enforceAllWords   *)
(* the search reaches attempt YieldEvery when no earlier attempt places    *)
(* every word; generateCrossword has disabled the Generate, Add Word,      *)
(* Clear and Load Preset buttons, and while the search waits for its timer *)
(* the page handles the Enter and Escape keys of the inputs and the Edit   *)
(* and Remove buttons of the list.  The seed list has YieldSeedCount seeds *)
(* that alternate between two draws of Math.random(); the clock stands     *)
(* still.                                                                  *)
(***************************************************************************)
YieldSeedLists ==
    { [k \in 1..YieldSeedCount |-> IF k % 2 = 1 THEN odd ELSE even] :
        odd \in [randomSeed : RandomValues, wordOrderSeed : RandomValues],
        even \in [randomSeed : {2}, wordOrderSeed : RandomValues] }

YieldConfigs ==
    [gridSize : {[default |-> MaxGridSize, min |-> 1, max |-> MaxGridSize]},
     generation : [mode : {"random"}, enforceAllWords : {TRUE},
                   maxAttempts : {YieldSeedCount}, timeoutSeconds : {1}]]

YieldInit ==
    /\ config \in YieldConfigs
    /\ gridSize = Max(config.gridSize.min, Min(config.gridSize.max, config.gridSize.default))
    /\ words \in WordLists
    /\ grid = initializeGrid(gridSize)
    /\ placements = <<>>
    /\ wordNumbers = <<>>
    /\ currentNumber = 1
    /\ now = 0
    /\ pc = "idle"
    /\ startTime = 0
    /\ seedCombinations = <<>>
    /\ seedIndex = 0
    /\ attempts = 0
    /\ bestResult = Null
    /\ bestScore = 0
    /\ foundPerfectSolution = FALSE
    /\ result = Null
    /\ wordsToPlace = <<>>
    /\ placedSomething = FALSE
    /\ filterIndex = 0
    /\ kept = <<>>
    /\ returned = Null
    /\ attemptLog = <<>>
    /\ bestAttempt = 0
    /\ probe = NoProbe
    \* the user may have clicked Edit on the first word before Generate
    /\ \E form \in {<<-1, NoCall>>, <<0, [op |-> "editWord", index |-> 0]>>} :
          editingIndex = form[1] /\ lastCall = form[2]
    /\ hostEvents = 0

\* GenerateCrossword, the seed list being one of YieldSeedLists
GenerateCrosswordManySeeds ==
    /\ pc = "idle"
    /\ ~(Len(words) < 2)
    /\ startTime' = now
    /\ bestResult' = Null
    /\ bestScore' = 0
    /\ attempts' = 0
    /\ foundPerfectSolution' = FALSE
    /\ seedCombinations' \in YieldSeedLists
    /\ seedIndex' = 0
    /\ pc' = "loop"
    /\ UNCHANGED <<contextVars, now, attemptVars, returned, attemptLog, bestAttempt, probe, formVars>>

\* the handlers the page can run while the search waits
YieldAddWord == pc = "yield" /\ AddWord
YieldEditWord == pc = "yield" /\ EditWord
YieldCancelEdit == pc = "yield" /\ CancelEdit
YieldRemoveWord == pc = "yield" /\ RemoveWord

YieldNext ==
    \/ GenerateCrosswordManySeeds
    \/ LoopExit
    \/ LoopStartAttempt
    \/ LoopYield
    \/ YieldAddWord
    \/ YieldEditWord
    \/ YieldCancelEdit
    \/ YieldRemoveWord
    \/ LoopResume
    \/ StartAttempt
    \/ BeginPass
    \/ FilterWord
    \/ EndPass
    \/ EndAttempt
    \/ EvaluatePerfect
    \/ EvaluateBetter
    \/ EvaluateNotBetter
    \/ Finish

SpecYield == YieldInit /\ [][YieldNext]_vars

(***************************************************************************)
(* The search as one computation, from the for loop to the return, with no *)
(* await: generateSingleCrosswordWithSeed as a function of the mode, the   *)
(* grid size, the word list and the seed, and the loop over the seeds.     *)
(***************************************************************************)
\* the filter callback on toPlace[k], toPlace[k + 1], ...; pass holds the
\* Result, the words kept and placedSomething
RECURSIVE FilterFrom(_, _, _, _, _)
FilterFrom(mode, size, toPlace, k, pass) ==
    IF k > Len(toPlace) THEN pass
    ELSE CHOOSE out \in
            { FilterFrom(mode, size, toPlace, k + 1, next) :
                next \in
                  { LET wordObj == toPlace[k]
                        bestPlacement == ChoosePlacement(mode, size, pass.result, wordObj.word)
                    IN  IF wordObj.word \in pass.result.placedWords THEN pass
                        ELSE IF bestPlacement # Null
                        THEN [pass EXCEPT !.result =
                                  placeWordForResult(pass.result, wordObj.word, wordObj.clue,
                                                     bestPlacement.startRow,
                                                     bestPlacement.startCol,
                                                     bestPlacement.direction),
                                          !.placedSomething = TRUE]
                        ELSE [pass EXCEPT !.kept = Append(@, wordObj)] } } : TRUE

\* the while loop
RECURSIVE PlacementLoop(_, _, _, _, _)
PlacementLoop(mode, size, res, toPlace, placed) ==
    IF placed /\ Len(toPlace) > 0
    THEN CHOOSE out \in
            { PlacementLoop(mode, size, pass.result, pass.kept, pass.placedSomething) :
                pass \in { FilterFrom(mode, size, toPlace, 1,
                                      [result |-> res, kept |-> <<>>,
                                       placedSomething |-> FALSE]) } } : TRUE
    ELSE res

generateSingleCrosswordWithSeed(mode, size, list, seed) ==
    LET copied == IF "wordOrder" \in DOMAIN seed THEN seed.wordOrder ELSE list
        ordered == IF mode = "random"
                   THEN deterministicShuffle(copied, seed.wordOrderSeed)
                   ELSE copied
        firstWord == Head(ordered)
        startPos == IF "startingPosition" \in DOMAIN seed
                    THEN seed.startingPosition
                    ELSE [startRow |-> size \div 2, startCol |-> size \div 2]
        fresh == [placements |-> <<>>, placedWords |-> {}, grid |-> initializeGrid(size),
                  wordNumbers |-> <<>>, currentNumber |-> 1]
    IN  IF Len(ordered) = 0 THEN fresh
        ELSE PlacementLoop(mode, size,
                           placeWordForResult(fresh, firstWord.word, firstWord.clue,
                                              startPos.startRow, startPos.startCol, "across"),
                           Tail(ordered), TRUE)

\* the for loop from seedIndex on, the clock standing still
RECURSIVE SearchFrom(_, _, _, _, _, _, _, _, _)
SearchFrom(mode, size, list, seeds, total, index, count, best, score) ==
    IF ~(index < Len(seeds) /\ count < total)
    THEN [bestResult |-> best, attempts |-> count, foundPerfectSolution |-> FALSE]
    ELSE CHOOSE out \in
            { IF Cardinality(res.placedWords) = Len(list)
              THEN [bestResult |-> res, attempts |-> count + 1, foundPerfectSolution |-> TRUE]
              ELSE IF scoreCrosswordResult(res) > score
              THEN SearchFrom(mode, size, list, seeds, total, index + 1, count + 1, res,
                              Len(res.placements) * 100)
              ELSE SearchFrom(mode, size, list, seeds, total, index + 1, count + 1, best,
                              score) :
                res \in {generateSingleCrosswordWithSeed(mode, size, list, seeds[index + 1])} } :
            TRUE

SearchWithoutYield(list) ==
    SearchFrom(generationMode, gridSize, list, seedCombinations, totalAttempts, 0, 0, Null, 0)

(***************************************************************************)
(* Properties.                                                             *)
(***************************************************************************)
\* (row, col) is a cell of the size x size grid
InGrid(cell, size) == cell[1] \in 0..(size - 1) /\ cell[2] \in 0..(size - 1)

\* reading res.grid along every placement of res gives the placement's word
ReadsBack(res) ==
    \A k \in 1..Len(res.placements) :
        LET p == res.placements[k]
        IN  \A i \in 0..(Len(p.word) - 1) :
                LET cell == CellAt(p.startRow, p.startCol, p.direction, i)
                IN  At(res.grid, cell[1], cell[2]) = p.word[i + 1]

\* every placement of res lies wholly inside the size x size grid
AllInsideGrid(res, size) ==
    \A k \in 1..Len(res.placements) :
        LET p == res.placements[k]
        IN  /\ p.startRow >= 0
            /\ p.startCol >= 0
            /\ IF p.direction = "across"
               THEN p.startCol + Len(p.word) <= size /\ p.startRow < size
               ELSE p.startRow + Len(p.word) <= size /\ p.startCol < size

\* res holds every word of the list
PlacesEveryWord(list, res) == \A k \in 1..Len(list) : list[k].word \in res.placedWords

\* the attempts whose Result the loop body has already examined
Evaluated ==
    IF pc \in {"attempt", "while", "filter", "evaluate"}
    THEN 1..(Len(attemptLog) - 1) ELSE 1..Len(attemptLog)

\* C1: in every state of an attempt, in the best Result held and in the Result
\* returned, reading the grid along each placement gives back the placement's
\* word, letter by letter: no placement has overwritten a covered cell with
\* another letter.
C1_PlacementsReadBack ==
    /\ result # Null => ReadsBack(result)
    /\ bestResult # Null => ReadsBack(bestResult)
    /\ (returned # Null /\ returned.bestResult # Null) => ReadsBack(returned.bestResult)

\* C1 witness: a returned Result of three placements, each later one crossing
\* an earlier one on a shared cell.
C1_Witness ==
    /\ returned # Null
    /\ returned.bestResult # Null
    /\ Len(returned.bestResult.placements) = 3
    /\ \A k \in 2..3 : \E j \in 1..(k - 1) :
          LET p == returned.bestResult.placements[k]
              q == returned.bestResult.placements[j]
          IN  \E a \in 0..(Len(p.word) - 1), b \in 0..(Len(q.word) - 1) :
                 CellAt(p.startRow, p.startCol, p.direction, a)
                    = CellAt(q.startRow, q.startCol, q.direction, b)

\* C2 (as claimed): every placement of the returned Result, the seed word's
\* included, lies wholly inside the gridSize x gridSize grid.
C2_AllPlacementsInsideGrid ==
    (returned # Null /\ returned.bestResult # Null)
        => AllInsideGrid(returned.bestResult, gridSize)

\* the situations canPlaceWord is claimed to reject, for the call in probe
ProbeCell(i) == CellAt(probe.startRow, probe.startCol, probe.direction, i)
ProbeFits == \A i \in 0..(Len(probe.word) - 1) : InGrid(ProbeCell(i), probe.gridSize)
ProbeConflict ==
    \E i \in 0..(Len(probe.word) - 1) :
        /\ InGrid(ProbeCell(i), probe.gridSize)
        /\ probe.grid[ProbeCell(i)[1]][ProbeCell(i)[2]] # Empty
        /\ probe.grid[ProbeCell(i)[1]][ProbeCell(i)[2]] # probe.word[i + 1]
ProbeSideNeighbours(cell) ==
    IF probe.direction = "across"
    THEN {<<cell[1] - 1, cell[2]>>, <<cell[1] + 1, cell[2]>>}
    ELSE {<<cell[1], cell[2] - 1>>, <<cell[1], cell[2] + 1>>}
ProbeParallelAdjacent ==
    \E i \in 0..(Len(probe.word) - 1) :
        /\ InGrid(ProbeCell(i), probe.gridSize)
        /\ probe.grid[ProbeCell(i)[1]][ProbeCell(i)[2]] = Empty
        /\ \E n \in ProbeSideNeighbours(ProbeCell(i)) :
              InGrid(n, probe.gridSize) /\ probe.grid[n[1]][n[2]] # Empty
ProbeEndTouch ==
    \E n \in {ProbeCell(-1), ProbeCell(Len(probe.word))} :
        InGrid(n, probe.gridSize) /\ probe.grid[n[1]][n[2]] # Empty
ProbeFlush ==
    \/ ~InGrid(ProbeCell(-1), probe.gridSize)
    \/ ~InGrid(ProbeCell(Len(probe.word)), probe.gridSize)

\* C3: canPlaceWord returns false whenever a cell the word covers already
\* holds a letter other than the word's letter at that offset.
C3_RejectsLetterConflict ==
    (probe.called /\ ProbeConflict) => probe.returned = FALSE

\* C3 witness: a call rejected for a letter conflict alone (the word fits, no
\* parallel neighbour, nothing before the start or after the end).
C3_Witness ==
    /\ probe.called
    /\ ProbeFits /\ ProbeConflict /\ ~ProbeParallelAdjacent /\ ~ProbeEndTouch
    /\ probe.returned = FALSE

\* C4: canPlaceWord returns false whenever a covered cell is empty and one of
\* its two perpendicular neighbours is inside the grid and not empty.
C4_RejectsParallelAdjacency ==
    (probe.called /\ ProbeParallelAdjacent) => probe.returned = FALSE

\* C4 witness: a call rejected for the neighbour below (across) or to the
\* right (down) of an empty covered cell alone.
C4_Witness ==
    /\ probe.called
    /\ ProbeFits /\ ~ProbeConflict /\ ProbeParallelAdjacent /\ ~ProbeEndTouch
    /\ \E i \in 0..(Len(probe.word) - 1) :
          LET below == IF probe.direction = "across"
                       THEN <<ProbeCell(i)[1] + 1, ProbeCell(i)[2]>>
                       ELSE <<ProbeCell(i)[1], ProbeCell(i)[2] + 1>>
          IN  InGrid(below, probe.gridSize) /\ probe.grid[below[1]][below[2]] # Empty
    /\ probe.returned = FALSE

\* C5: canPlaceWord returns false whenever the cell just before the word's
\* start or just after its end is inside the grid and not empty; a word whose
\* start or end is flush with the grid's edge, and that nothing else forbids,
\* is accepted.
C5_RejectsEndTouch ==
    /\ (probe.called /\ ProbeEndTouch) => probe.returned = FALSE
    /\ (probe.called /\ ProbeFlush /\ ProbeFits /\ ~ProbeConflict
          /\ ~ProbeParallelAdjacent /\ ~ProbeEndTouch) => probe.returned = TRUE

\* C5 witness: a call rejected only because the cell after the word's end
\* holds a letter, the word's start being flush with the edge.
C5_Witness ==
    /\ probe.called
    /\ ProbeFits /\ ~ProbeConflict /\ ~ProbeParallelAdjacent
    /\ ~InGrid(ProbeCell(-1), probe.gridSize)
    /\ InGrid(ProbeCell(Len(probe.word)), probe.gridSize)
    /\ ProbeEndTouch
    /\ probe.returned = FALSE

\* the score of the k-th attempt's Result
AttemptScore(k) == scoreCrosswordResult(attemptLog[k].result)

\* the k-th attempt has returned a Result holding every word of the list it
\* was run on
PerfectAttempt(k) ==
    attemptLog[k].result # Null /\ PlacesEveryWord(attemptLog[k].words, attemptLog[k].result)

\* C6: an attempt that places every input word is the last attempt started (no
\* seed after its own is consumed); once the loop body has examined it, its
\* Result is the best Result, the perfect-solution flag is set and the search
\* has left the loop, and the search returns that Result with the flag set.
C6_PerfectAttemptStopsSearch ==
    \A k \in 1..Len(attemptLog) :
        PerfectAttempt(k) =>
            /\ k = Len(attemptLog)
            /\ attempts = k
            /\ seedIndex = attemptLog[k].seedIndex
            /\ pc \in {"evaluate", "finish", "done"}
            /\ pc # "evaluate" =>
                  /\ bestResult = attemptLog[k].result
                  /\ bestAttempt = k
                  /\ foundPerfectSolution
            /\ pc = "done" =>
                  /\ returned.bestResult = attemptLog[k].result
                  /\ returned.foundPerfectSolution
                  /\ returned.attempts = k

\* C6 witness: the search has returned a perfect Result found by its second or
\* a later attempt, with attempts left in the budget and seeds left in the list.
C6_Witness ==
    /\ pc = "done"
    /\ returned.foundPerfectSolution
    /\ PerfectAttempt(Len(attemptLog))
    /\ returned.attempts >= 2
    /\ returned.attempts < totalAttempts
    /\ seedIndex + 1 < Len(seedCombinations)
    /\ now - startTime <= timeoutMs

\* C7: as long as no examined attempt is perfect, the best Result held (and,
\* at the end, the Result returned) is that of the earliest examined attempt
\* whose score is the maximum over the examined attempts: an attempt whose
\* score only equals the best score does not replace it.
C7_BestIsEarliestMaximum ==
    (Evaluated # {} /\ \A k \in Evaluated : ~PerfectAttempt(k)) =>
        /\ bestAttempt \in Evaluated
        /\ \A k \in Evaluated : AttemptScore(k) <= AttemptScore(bestAttempt)
        /\ \A k \in Evaluated : k < bestAttempt => AttemptScore(k) < AttemptScore(bestAttempt)
        /\ bestScore = AttemptScore(bestAttempt)
        /\ bestResult = attemptLog[bestAttempt].result
        /\ pc = "done" => returned.bestResult = attemptLog[bestAttempt].result

\* C7 witness: the search has returned without a perfect attempt; the Result
\* returned is that of its second or a later attempt, which beat an earlier
\* one, and a still later attempt reached the same score without replacing it.
C7_Witness ==
    /\ pc = "done"
    /\ ~returned.foundPerfectSolution
    /\ bestAttempt >= 2
    /\ returned.bestResult = attemptLog[bestAttempt].result
    /\ \E k \in 1..Len(attemptLog) :
          /\ k > bestAttempt
          /\ AttemptScore(k) = AttemptScore(bestAttempt)
          /\ attemptLog[k].result # attemptLog[bestAttempt].result

\* C8 (as claimed): with enforceAllWords false the search has run exactly one
\* attempt when it returns, and returns that attempt's Result.
C8_ExactlyOneAttempt ==
    (pc = "done" /\ ~enforceAllWords) =>
        /\ returned.attempts = 1
        /\ Len(attemptLog) = 1
        /\ returned.bestResult = attemptLog[1].result

\* C9: with enforceAllWords true the number of attempts never exceeds
\* maxAttempts nor the number of generated seeds, and the attempts take the
\* seeds in list order, each seed at most once: the k-th attempt's seed index
\* is inside the list and greater than that of every earlier attempt.
C9_AttemptsWithinBudgetAndSeeds ==
    enforceAllWords =>
        /\ attempts <= maxAttempts
        /\ attempts <= Len(seedCombinations)
        /\ Len(attemptLog) = attempts
        /\ \A k \in 1..Len(attemptLog) :
              /\ attemptLog[k].seedIndex \in 0..(Len(seedCombinations) - 1)
              /\ \A j \in 1..(k - 1) : attemptLog[j].seedIndex < attemptLog[k].seedIndex

\* C9 witness: a search enforcing all words that returned because maxAttempts
\* (more than one) attempts had run, with seeds left, no perfect Result and the
\* deadline not passed.
C9_Witness ==
    /\ pc = "done"
    /\ enforceAllWords
    /\ maxAttempts > 1
    /\ returned.attempts = maxAttempts
    /\ seedIndex < Len(seedCombinations)
    /\ ~returned.foundPerfectSolution
    /\ now - startTime <= timeoutMs

\* C10: the clock never goes back; an attempt begins only at the top of an
\* iteration where the elapsed time is not greater than the timeout, so once
\* the deadline has passed no attempt begins (only the one in progress
\* completes), whatever maxAttempts is; at the top of an iteration past the
\* deadline the search leaves the loop with the best Result unchanged, and it
\* returns that best Result.
C10_NoAttemptBeginsAfterDeadline ==
    [][ /\ now' >= now
        /\ attempts' # attempts => (pc = "loop" /\ ~(now - startTime > timeoutMs))
        /\ (pc = "loop" /\ now - startTime > timeoutMs /\ pc' # pc) =>
              (pc' = "finish" /\ bestResult' = bestResult /\ attempts' = attempts)
        /\ (pc = "finish" /\ pc' # pc) =>
              (pc' = "done" /\ returned'.bestResult = bestResult
                 /\ returned'.attempts = attempts)
      ]_vars

\* C10 witness: a search with the large attempt budget that returned because
\* the deadline had passed at the top of an iteration, after at least one
\* attempt, with attempts left in the budget and seeds left in the list.
C10_Witness ==
    /\ pc = "done"
    /\ enforceAllWords
    /\ maxAttempts = ManyAttempts
    /\ returned.attempts >= 1
    /\ returned.attempts < maxAttempts
    /\ seedIndex < Len(seedCombinations)
    /\ ~returned.foundPerfectSolution
    /\ returned.bestResult # Null
    /\ returned.timeElapsed > timeoutMs

\* the Results the model holds: the one under construction, the best so far,
\* the one returned and those of the attempts that have returned
HeldResults ==
    {res \in {result, bestResult} \cup {attemptLog[k].result : k \in 1..Len(attemptLog)}
              \cup (IF returned # Null THEN {returned.bestResult} ELSE {}) : res # Null}

\* C11: in every Result the k-th placement carries number k, so the numbers
\* are 1, 2, ..., n without gap or repeat, and the Result's currentNumber is
\* n + 1, n being the number of placements.
C11_NumbersFollowPlacementOrder ==
    \A res \in HeldResults :
        /\ \A k \in 1..Len(res.placements) : res.placements[k].number = k
        /\ res.currentNumber = Len(res.placements) + 1

\* C11 witness: the Result returned has three placements, the second and the
\* third in different directions, numbered up to 3, and its counter is at 4.
C11_Witness ==
    /\ pc = "done"
    /\ returned.bestResult # Null
    /\ Len(returned.bestResult.placements) = 3
    /\ returned.bestResult.placements[3].number = 3
    /\ returned.bestResult.currentNumber = 4
    /\ returned.bestResult.placements[2].direction
          # returned.bestResult.placements[3].direction

\* placement p of res crosses another placement of res, of the other
\* direction, on a cell where both words have the same letter
CrossesAnother(res, p) ==
    \E q \in {res.placements[k] : k \in 1..Len(res.placements)} :
        /\ q # p
        /\ q.direction # p.direction
        /\ \E a \in 0..(Len(p.word) - 1), b \in 0..(Len(q.word) - 1) :
              /\ CellAt(p.startRow, p.startCol, p.direction, a)
                    = CellAt(q.startRow, q.startCol, q.direction, b)
              /\ p.word[a + 1] = q.word[b + 1]

\* the call returned is the one of the example: CAT, TIGER, DOG in maxOverlap
\* mode on the 25 x 25 grid, with the first seed (longest first, centre start)
ExampleAttemptReturned ==
    /\ pc = "evaluate"
    /\ words = ExampleWords
    /\ gridSize = DefaultGridSize
    /\ generationMode = "maxOverlap"
    /\ seedIndex = 0

\* C12: a single attempt in maxOverlap mode on CAT, TIGER, DOG, longest first
\* from the centre of the 25 x 25 grid, places all 3 words, and CAT and DOG
\* each cross another placed word on a shared letter.
C12_ExamplePlacesAllThreeWords ==
    ExampleAttemptReturned =>
        /\ Len(result.placements) = 3
        /\ result.placedWords = {ExampleWords[k].word : k \in 1..3}
        /\ \A k \in 1..Len(result.placements) :
              result.placements[k].word \in {ExampleWords[1].word, ExampleWords[3].word}
                 => CrossesAnother(result, result.placements[k])

\* C12 witness: the example's attempt has returned, with TIGER across from the
\* centre cell (12, 12) and CAT and DOG down through its T and its G.
C12_Witness ==
    /\ ExampleAttemptReturned
    /\ Len(result.placements) = 3
    /\ result.placements[1].word = ExampleWords[2].word
    /\ <<result.placements[1].startRow, result.placements[1].startCol>> = <<12, 12>>
    /\ At(result.grid, 10, 12) = "C"
    /\ At(result.grid, 10, 14) = "D"

\* C13: the calls of the single-attempt generator with the same word list,
\* grid size, mode and seed, reset() in between, return identical Results:
\* the same placements in the same order with the same numbers and
\* directions, the same grid, the same placed words.
C13_SameSeedSameResult ==
    \A j, k \in 1..Len(attemptLog) :
        (attemptLog[j].result # Null /\ attemptLog[k].result # Null) =>
            /\ attemptLog[j].result.placements = attemptLog[k].result.placements
            /\ attemptLog[j].result.grid = attemptLog[k].result.grid
            /\ attemptLog[j].result.placedWords = attemptLog[k].result.placedWords
            /\ attemptLog[j].result = attemptLog[k].result

\* C13 witness: the second call with a seed of maxOverlap mode (a word order
\* and a starting position) has returned, and its Result has three placements.
C13_Witness ==
    /\ pc = "evaluate"
    /\ Len(attemptLog) = 2
    /\ attemptLog[1].result # Null
    /\ attemptLog[2].result # Null
    /\ "wordOrder" \in DOMAIN seedCombinations[seedIndex + 1]
    /\ Len(attemptLog[2].result.placements) = 3

\* placement k of res covers a cell that an earlier placement of the other
\* direction covers
CrossesEarlier(res, k) ==
    \E j \in 1..(k - 1) :
        LET p == res.placements[k]
            q == res.placements[j]
        IN  /\ q.direction # p.direction
            /\ \E a \in 0..(Len(p.word) - 1), b \in 0..(Len(q.word) - 1) :
                  CellAt(p.startRow, p.startCol, p.direction, a)
                     = CellAt(q.startRow, q.startCol, q.direction, b)

\* C14: in every Result, every placement other than the first covers a cell
\* that an earlier placement of the opposite direction also covers, so the
\* placed words form one connected layout.
C14_EveryPlacementCrossesAnEarlierOne ==
    \A res \in HeldResults :
        \A k \in 2..Len(res.placements) : CrossesEarlier(res, k)

\* C14 witness: a returned Result whose third placement runs across: it
\* crosses the second placement, a down word, and is not on the seed's row.
C14_Witness ==
    /\ pc = "done"
    /\ returned.bestResult # Null
    /\ Len(returned.bestResult.placements) = 3
    /\ returned.bestResult.placements[2].direction = "down"
    /\ returned.bestResult.placements[3].direction = "across"
    /\ returned.bestResult.placements[3].startRow
          # returned.bestResult.placements[1].startRow
    /\ CrossesEarlier(returned.bestResult, 3)

\* C15: after a search in which at least one attempt ran there is a best
\* Result, that of the attempt that was adopted, left as that attempt returned
\* it; the generator's grid, placements and wordNumbers are exactly that
\* Result's, and reading the grid along every placement gives its word.
C15_VisibleStateIsBestResult ==
    (pc = "done" /\ returned.attempts >= 1) =>
        /\ returned.bestResult # Null
        /\ returned.bestResult = attemptLog[bestAttempt].result
        /\ grid = returned.bestResult.grid
        /\ placements = returned.bestResult.placements
        /\ wordNumbers = returned.bestResult.wordNumbers
        /\ currentNumber = returned.bestResult.currentNumber
        /\ ReadsBack([grid |-> grid, placements |-> placements])

\* C15 witness: the search returned after attempts that followed the adopted
\* one; the last attempt's Result has another grid than the one now visible.
C15_Witness ==
    /\ pc = "done"
    /\ returned.attempts >= 2
    /\ bestAttempt < returned.attempts
    /\ attemptLog[returned.attempts].result.grid # grid
    /\ grid = attemptLog[bestAttempt].result.grid
    /\ Len(placements) >= 2

\* C16: a call of generateCrossword with fewer than 2 words returns without
\* calling reset() and without starting an attempt: grid, placements,
\* wordNumbers and currentNumber are as before the call, and so are the
\* attempt counter, the attempts' history and the position of the search.
C16_TooFewWordsChangesNothing ==
    [][ (lastCall'.op = "generateCrossword" /\ lastCall' # lastCall) =>
            /\ Len(words) < 2
            /\ grid' = grid
            /\ placements' = placements
            /\ wordNumbers' = wordNumbers
            /\ currentNumber' = currentNumber
            /\ words' = words
            /\ attempts' = attempts
            /\ attemptLog' = attemptLog
            /\ pc' = pc
      ]_vars

\* C16 witness: generateCrossword has been called with fewer than 2 words left
\* after a search, and the crossword that search produced is still in place.
C16_Witness ==
    /\ lastCall.op = "generateCrossword"
    /\ pc = "done"
    /\ Len(words) < 2
    /\ Len(placements) >= 2
    /\ grid # initializeGrid(gridSize)
    /\ grid = returned.bestResult.grid

\* the inputs pass every test of addWord in the current state
AcceptableInputs(wordInput, clueInput) ==
    LET word == toUpperCase(trim(wordInput))
        clue == trim(clueInput)
    IN  /\ word # <<>>
        /\ clue # <<>>
        /\ Len(word) <= config.gridSize.max
        /\ \A k \in 1..Len(word) : word[k] \in Letters
        /\ \A index \in 0..(Len(words) - 1) :
              (words[index + 1] # Hole /\ words[index + 1].word = word)
                 => index = editingIndex

\* C17: a call of addWord changes words or editingIndex only when the
\* trimmed, upper-cased word is not empty, the trimmed clue is not empty, the
\* word has at most gridSize.max letters, all of them A to Z, and no entry
\* other than the one being edited holds that word.
C17_AddWordChangesListOnlyForValidInput ==
    [][ (lastCall'.op = "addWord" /\ (words' # words \/ editingIndex' # editingIndex)) =>
            AcceptableInputs(lastCall'.wordInput, lastCall'.clueInput)
      ]_vars

\* C17 witness: while an entry is being edited, addWord was called with the
\* word of another entry and refused it; the editing goes on.
C17_Witness ==
    /\ lastCall.op = "addWord"
    /\ lastCall.logged = "Word already added"
    /\ lastCall.editingIndex >= 0
    /\ editingIndex = lastCall.editingIndex
    /\ Len(words) >= 2

\* C18: no two entries of the word list hold the same word (the words are
\* stored upper-cased), after any sequence of calls of addWord, editWord,
\* cancelEdit, removeWord and clearAll from the empty list.
C18_WordsAreUnique ==
    \A i, j \in 1..Len(words) :
        (i # j /\ words[i] # Hole /\ words[j] # Hole) => words[i].word # words[j].word

\* C18 witness: a list of three entries, the last call being an addWord that
\* replaced the entry being edited.
C18_Witness ==
    /\ Len(words) = 3
    /\ \A i \in 1..3 : words[i] # Hole
    /\ lastCall.op = "addWord"
    /\ lastCall.logged = ""
    /\ lastCall.editingIndex >= 0
    /\ words[lastCall.editingIndex + 1].word = toUpperCase(trim(lastCall.wordInput))

\* getGridBounds of the generator object: the bounding box of its placements
\* (it takes no argument), -1 everywhere when it has none
getGridBounds ==
    IF Len(placements) = 0
    THEN [minRow |-> -1, maxRow |-> -1, minCol |-> -1, maxCol |-> -1]
    ELSE LET ps == {placements[k] : k \in 1..Len(placements)}
             lastRow(p) == p.startRow + (IF p.direction = "down" THEN Len(p.word) - 1 ELSE 0)
             lastCol(p) == p.startCol + (IF p.direction = "across" THEN Len(p.word) - 1 ELSE 0)
         IN  [minRow |-> CHOOSE r \in {p.startRow : p \in ps} :
                            \A p \in ps : r <= p.startRow,
              maxRow |-> CHOOSE r \in {lastRow(p) : p \in ps} : \A p \in ps : r >= lastRow(p),
              minCol |-> CHOOSE c \in {p.startCol : p \in ps} :
                            \A p \in ps : c <= p.startCol,
              maxCol |-> CHOOSE c \in {lastCol(p) : p \in ps} : \A p \in ps : c >= lastCol(p)]

\* the scoreCrosswordResult method of the generator object (the search calls
\* the function of generator.js, not this method): 100 per placement plus
\* (filledCount / area) * 50, as the fraction numerator / denominator
ScoreWithDensity(res) ==
    LET bounds == getGridBounds
        area == (bounds.maxRow - bounds.minRow + 1) * (bounds.maxCol - bounds.minCol + 1)
        filledCount ==
            Cardinality({cell \in UNION {{<<row, col>> : col \in DOMAIN res.grid[row]} :
                                            row \in DOMAIN res.grid} :
                            res.grid[cell[1]][cell[2]] \notin {Empty, Undefined}})
    IN  IF bounds.minRow # -1 /\ area > 0
        THEN [numerator |-> Len(res.placements) * 100 * area + filledCount * 50,
              denominator |-> area]
        ELSE [numerator |-> Len(res.placements) * 100, denominator |-> 1]

\* C19: of any two Results, the one with strictly more placements has the
\* strictly higher score by the scoreCrosswordResult the search uses; so it
\* has by the method of the generator object, where a search would call it:
\* once an attempt has returned, reset() having emptied the generator's
\* placements.
C19_MorePlacementsHigherScore ==
    \A a, b \in HeldResults :
        Len(a.placements) > Len(b.placements) =>
            /\ scoreCrosswordResult(a) > scoreCrosswordResult(b)
            /\ pc = "evaluate" =>
                  ScoreWithDensity(a).numerator * ScoreWithDensity(b).denominator
                     > ScoreWithDensity(b).numerator * ScoreWithDensity(a).denominator

\* C19 witness: the search has returned; one of its attempts made three
\* placements and another made two.
C19_Witness ==
    /\ pc = "done"
    /\ \E j, k \in 1..Len(attemptLog) :
          /\ Len(attemptLog[j].result.placements) = 3
          /\ Len(attemptLog[k].result.placements) = 2
          /\ scoreCrosswordResult(attemptLog[j].result) = 300
          /\ scoreCrosswordResult(attemptLog[k].result) = 200

\* res has exactly one placement for every word of the list
PlacesEachWordOnce(list, res) ==
    \A k \in 1..Len(list) :
        Cardinality({j \in 1..Len(res.placements) :
                        res.placements[j].word = list[k].word}) = 1

SharedLetterPairs(word1, word2) ==
    {pair \in (0..(Len(word1) - 1)) \X (0..(Len(word2) - 1)) :
        word1[pair[1] + 1] = word2[pair[2] + 1]}

\* pair a comes before pair b: smaller i, or the same i and smaller j
PairBefore(a, b) == a[1] < b[1] \/ (a[1] = b[1] /\ a[2] < b[2])

\* C21: findIntersections(A, B) returns exactly the pairs (i, j) with
\* A[i] = B[j], each once, by i ascending and then j ascending; the list is
\* empty when the words share no letter (CAT and DOG) and holds (2, 0) for
\* CAT and TIGER.
C21_FindIntersectionsListsSharedLetters ==
    (probe.called /\ probe.op = "findIntersections") =>
        LET found == probe.returned
        IN  /\ {found[k] : k \in 1..Len(found)} = SharedLetterPairs(probe.word1, probe.word2)
            /\ \A k \in 1..(Len(found) - 1) : PairBefore(found[k], found[k + 1])
            /\ Len(found) = Cardinality(SharedLetterPairs(probe.word1, probe.word2))
            /\ (\A i \in 1..Len(probe.word1), j \in 1..Len(probe.word2) :
                    probe.word1[i] # probe.word2[j]) => found = <<>>
            /\ (probe.word1 = ExampleWords[1].word /\ probe.word2 = ExampleWords[3].word)
                  => found = <<>>
            /\ (probe.word1 = ExampleWords[1].word /\ probe.word2 = ExampleWords[2].word)
                  => \E k \in 1..Len(found) : found[k] = <<2, 0>>

\* C21 witness: a call on ABA and AAB, which share letters at five pairs of
\* positions, returned the five pairs, those with the same i by j ascending.
C21_Witness ==
    /\ probe.called /\ probe.op = "findIntersections"
    /\ probe.word1 = <<"A", "B", "A">>
    /\ probe.word2 = <<"A", "A", "B">>
    /\ probe.returned = << <<0, 0>>, <<0, 1>>, <<1, 2>>, <<2, 0>>, <<2, 1>> >>

\* the candidate the intersection pair (i, j) induces for the call in probe:
\* the new word runs in the other direction and its letter i is on the cell
\* of letter j of the existing placement
ProbeCrossingCell(pair) ==
    CellAt(probe.existingPlacement.startRow, probe.existingPlacement.startCol,
           probe.existingPlacement.direction, pair[2])
ProbeOtherDirection ==
    IF probe.existingPlacement.direction = "across" THEN "down" ELSE "across"
ProbeInducedStart(pair) ==
    IF ProbeOtherDirection = "down"
    THEN <<ProbeCrossingCell(pair)[1] - pair[1], ProbeCrossingCell(pair)[2]>>
    ELSE <<ProbeCrossingCell(pair)[1], ProbeCrossingCell(pair)[2] - pair[1]>>
ProbeInducedInside(pair) ==
    \A i \in 0..(Len(probe.newWord) - 1) :
        InGrid(CellAt(ProbeInducedStart(pair)[1], ProbeInducedStart(pair)[2],
                      ProbeOtherDirection, i), probe.gridSize)
ProbeInducedLegal(pair) ==
    /\ ProbeInducedInside(pair)
    /\ canPlaceWord(probe.gridSize, probe.grid, probe.newWord,
                    ProbeInducedStart(pair)[1], ProbeInducedStart(pair)[2],
                    ProbeOtherDirection)

\* C22: getIntersectionPlacements returns, in the order of findIntersections,
\* one candidate for each intersection pair (i, j) whose induced position is
\* inside the grid and passes canPlaceWord, and nothing else; the candidate
\* runs in the direction opposite to the existing placement's and starts
\* where letter i of the new word lands on the cell of letter j of the
\* existing word.
C22_CandidatesAreTheLegalCrossings ==
    (probe.called /\ probe.op = "getIntersectionPlacements") =>
        LET pairs == findIntersections(probe.newWord, probe.existingPlacement.word)
            legal == SelectSeq(pairs, ProbeInducedLegal)
        IN  /\ Len(probe.returned) = Len(legal)
            /\ \A k \in 1..Len(legal) :
                  /\ probe.returned[k] = <<ProbeInducedStart(legal[k])[1],
                                           ProbeInducedStart(legal[k])[2],
                                           ProbeOtherDirection>>
                  /\ probe.returned[k][3] # probe.existingPlacement.direction
                  /\ CellAt(probe.returned[k][1], probe.returned[k][2],
                            probe.returned[k][3], legal[k][1])
                        = ProbeCrossingCell(legal[k])
                  /\ At(probe.grid, ProbeCrossingCell(legal[k])[1],
                        ProbeCrossingCell(legal[k])[2])
                        = probe.newWord[legal[k][1] + 1]

\* C22 witness: a call for which findIntersections gives four pairs or more:
\* one induces a position that leaves the grid, one a position inside the
\* grid that canPlaceWord refuses, and two or more are returned as candidates.
C22_Witness ==
    /\ probe.called /\ probe.op = "getIntersectionPlacements"
    /\ Len(findIntersections(probe.newWord, probe.existingPlacement.word)) >= 4
    /\ Len(probe.returned) >= 2
    /\ \E k \in 1..Len(findIntersections(probe.newWord, probe.existingPlacement.word)) :
          LET pair == findIntersections(probe.newWord, probe.existingPlacement.word)[k]
          IN  ProbeInducedInside(pair) /\ ~ProbeInducedLegal(pair)
    /\ \E k \in 1..Len(findIntersections(probe.newWord, probe.existingPlacement.word)) :
          LET pair == findIntersections(probe.newWord, probe.existingPlacement.word)[k]
          IN  ~ProbeInducedInside(pair)

\* the Result a step of an attempt starts from: the fresh one for the step
\* that places the first word, the one under construction for the others
ResultBeforeStep == IF pc = "attempt" THEN NewResult ELSE result

\* C23: within an attempt every call of placeWordForResult, the one that
\* places the first word at the seed's start cell included, is made with a
\* word, a start cell and a direction that canPlaceWord accepts on the grid
\* as it is just before the call.
C23_PlacesOnlyWhatCanPlaceWordAccepts ==
    [][(/\ pc \in {"attempt", "filter"}
        /\ result' # Null
        /\ Len(result'.placements) = Len(ResultBeforeStep.placements) + 1)
          => LET p == result'.placements[Len(result'.placements)]
             IN  canPlaceWord(gridSize, ResultBeforeStep.grid, p.word,
                              p.startRow, p.startCol, p.direction)]_vars

\* the passes of attempt k that placed a word
ProductivePasses(k) ==
    {m \in 1..Len(attemptLog[k].passes) : attemptLog[k].passes[m].placedSomething}

\* every pass that placed a word left wordsToPlace strictly shorter; a pass
\* that placed nothing is the attempt's last; there are at most (number of
\* words - 1) passes that placed a word, and at most one that did not
PassesShrinkOrEnd ==
    \A k \in 1..Len(attemptLog) :
        LET passes == attemptLog[k].passes
        IN  /\ \A m \in 1..Len(passes) :
                  /\ passes[m].placedSomething => passes[m].after < passes[m].before
                  /\ ~passes[m].placedSomething => m = Len(passes)
            /\ Cardinality(ProductivePasses(k)) <= Max(Len(attemptLog[k].words) - 1, 0)
            /\ Len(passes) <= Cardinality(ProductivePasses(k)) + 1
            /\ (k = Len(attemptLog) /\ pc = "while" /\ Len(passes) > 0
                   /\ ~passes[Len(passes)].placedSomething) => ~ENABLED BeginPass

\* inside the call a step can always be taken: the filter pass has an element
\* left to test or is over, and the call has a seed
CallCanStep ==
    /\ pc = "filter" => filterIndex <= Len(wordsToPlace)
    /\ pc = "attempt" => seedIndex + 1 \in DOMAIN seedCombinations

\* C24: the placement loop of an attempt terminates: every pass either places
\* a word, which strictly shortens the list of unplaced words, or is the last
\* pass, so at most (number of words - 1) passes place a word, at most one
\* pass that places nothing follows them, and every attempt started returns.
C24_PlacementLoopTerminates ==
    /\ []PassesShrinkOrEnd
    /\ []CallCanStep
    /\ (pc = "attempt") ~> (pc = "evaluate")

\* C24 witness: an attempt on three words has returned after a pass that
\* placed one of the two words left and a second pass that placed nothing.
C24_Witness ==
    /\ pc = "evaluate"
    /\ Len(words) = 3
    /\ Len(attemptLog[Len(attemptLog)].passes) = 2
    /\ attemptLog[Len(attemptLog)].passes[1]
          = [before |-> 2, after |-> 1, placedSomething |-> TRUE]
    /\ attemptLog[Len(attemptLog)].passes[2]
          = [before |-> 1, after |-> 1, placedSomething |-> FALSE]
    /\ Len(result.placements) = 2

\* the words of attempt k's list that its Result does not hold
Unplaced(k) ==
    {attemptLog[k].words[n].word : n \in 1..Len(attemptLog[k].words)}
        \ attemptLog[k].result.placedWords

\* C25: an attempt that has returned is at a fixed point: for every word of
\* its list left unplaced, getIntersectionPlacements returns no candidate
\* against any placement of the Result on the Result's grid, in maxOverlap
\* mode and in random mode.
C25_ReturnedAttemptIsAFixedPoint ==
    \A k \in 1..Len(attemptLog) :
        attemptLog[k].result # Null =>
            \A word \in Unplaced(k) :
                \A n \in 1..Len(attemptLog[k].result.placements) :
                    getIntersectionPlacements(gridSize, attemptLog[k].result.grid, word,
                                              attemptLog[k].result.placements[n]) = <<>>

\* C25 witness: an attempt in random mode has returned with two words placed
\* and one left out; the word left out shares a letter with a placed word, and
\* the last pass placed nothing.
C25_Witness ==
    /\ pc = "evaluate"
    /\ generationMode = "random"
    /\ Len(result.placements) = 2
    /\ \E word \in Unplaced(Len(attemptLog)) :
          \E n \in 1..Len(result.placements) :
              findIntersections(word, result.placements[n].word) # <<>>
    /\ ~attemptLog[Len(attemptLog)].passes[Len(attemptLog[Len(attemptLog)].passes)]
            .placedSomething

\* res as it was when it held its first n placements only: the same calls of
\* placeWordForResult on a fresh Result
RECURSIVE ResultAfter(_, _)
ResultAfter(res, n) ==
    IF n = 0 THEN NewResult
    ELSE LET p == res.placements[n]
         IN  placeWordForResult(ResultAfter(res, n - 1), p.word, p.clue,
                                p.startRow, p.startCol, p.direction)

\* the placements of res that give the word a legal candidate on res's grid
Yielding(res, word) ==
    {n \in 1..Len(res.placements) :
        getIntersectionPlacements(gridSize, res.grid, word, res.placements[n]) # <<>>}

\* the number of pairs of equal letters of the word and placement n's word
IntersectionCount(res, word, n) == Len(findIntersections(word, res.placements[n].word))

\* the earliest placement of res whose count is the largest among those that
\* give the word a candidate
EarliestMaximal(res, word) ==
    CHOOSE n \in Yielding(res, word) :
        \A m \in Yielding(res, word) :
            \/ IntersectionCount(res, word, m) < IntersectionCount(res, word, n)
            \/ IntersectionCount(res, word, m) = IntersectionCount(res, word, n) /\ n <= m

\* the first candidate getIntersectionPlacements returns against placement n
FirstCandidate(res, word, n) ==
    LET c == getIntersectionPlacements(gridSize, res.grid, word, res.placements[n])[1]
    IN  [startRow |-> c[1], startCol |-> c[2], direction |-> c[3]]

\* where placement k of res is
PositionOf(res, k) ==
    [startRow |-> res.placements[k].startRow, startCol |-> res.placements[k].startCol,
     direction |-> res.placements[k].direction]

\* C26: in maxOverlap mode a word that has a legal candidate is placed at the
\* first candidate returned for the earliest-placed existing placement whose
\* findIntersections count with the word is the largest among the placements
\* that yield a candidate: a later candidate replaces the choice only with a
\* strictly greater count.
C26_MaxOverlapTakesEarliestMaximum ==
    generationMode = "maxOverlap" =>
        /\ \A res \in HeldResults :
              \A k \in 2..Len(res.placements) :
                  LET before == ResultAfter(res, k - 1)
                      word == res.placements[k].word
                  IN  /\ Yielding(before, word) # {}
                      /\ PositionOf(res, k)
                            = FirstCandidate(before, word, EarliestMaximal(before, word))
        /\ (pc = "filter" /\ filterIndex < Len(wordsToPlace)) =>
              LET word == wordsToPlace[filterIndex + 1].word
              IN  IF Yielding(result, word) = {}
                  THEN ChoosePlacement("maxOverlap", gridSize, result, word) = Null
                  ELSE ChoosePlacement("maxOverlap", gridSize, result, word)
                          = FirstCandidate(result, word, EarliestMaximal(result, word))

\* C26 witness: in maxOverlap mode the third word placed had candidates
\* against both earlier placements and went to the second one, whose count
\* is strictly greater than the first one's.
C26_Witness ==
    /\ generationMode = "maxOverlap"
    /\ pc = "evaluate"
    /\ Len(result.placements) = 3
    /\ LET before == ResultAfter(result, 2)
           word == result.placements[3].word
       IN  /\ Yielding(before, word) = {1, 2}
           /\ IntersectionCount(before, word, 2) > IntersectionCount(before, word, 1)
           /\ PositionOf(result, 3) = FirstCandidate(before, word, 2)

\* the earliest placement of res that gives the word a legal candidate
EarliestYielding(res, word) ==
    CHOOSE n \in Yielding(res, word) : \A m \in Yielding(res, word) : n <= m

\* the scan of random mode for the word on res went through the placements up
\* to the earliest one that yields a candidate, ran the loop body for that
\* placement's first candidate alone, and stopped
StopsAtFirstCandidate(res, word) ==
    LET examined == ExaminedCandidates("random", gridSize, res, word)
        first == EarliestYielding(res, word)
    IN  /\ Len(examined) = first
        /\ \A n \in 1..Len(examined) :
              /\ examined[n].placement = n
              /\ examined[n].candidates = IF n = first THEN 1 ELSE 0

Grows(a, b) ==
    /\ Len(a.placements) <= Len(b.placements)
    /\ SubSeq(b.placements, 1, Len(a.placements)) = a.placements
    /\ a.placedWords \subseteq b.placedWords
    /\ \A row \in DOMAIN a.grid :
          \A col \in DOMAIN a.grid[row] :
              a.grid[row][col] \in Letters => At(b.grid, row, col) = a.grid[row][col]

\* C28: within one attempt the Result only grows: every step leaves the
\* placement list a prefix of the new one, removes no word from the set of
\* placed words, and neither changes nor clears a cell that holds a letter.
C28_ResultOnlyGrows ==
    [][(pc \in {"attempt", "while", "filter"} /\ result' # Null)
          => Grows(ResultBeforeStep, result')]_vars

\* C28 witness: the attempt under way has placed a third word, which crosses
\* an earlier one on a cell that already held its letter, and the two earlier
\* placements are still the first two.
C28_Witness ==
    /\ pc \in {"while", "filter"}
    /\ Len(result.placements) = 3
    /\ Grows(ResultAfter(result, 2), result)
    /\ \E i \in 0..(Len(result.placements[3].word) - 1) :
          LET cell == CellAt(result.placements[3].startRow, result.placements[3].startCol,
                             result.placements[3].direction, i)
          IN  At(ResultAfter(result, 2).grid, cell[1], cell[2])
                 = result.placements[3].word[i + 1]

\* the entries of list a are those of list b, each as many times
SameEntries(a, b) ==
    /\ Len(a) = Len(b)
    /\ \A x \in {a[k] : k \in 1..Len(a)} \cup {b[k] : k \in 1..Len(b)} :
          Cardinality({k \in 1..Len(a) : a[k] = x})
             = Cardinality({k \in 1..Len(b) : b[k] = x})

\* C29: running an attempt changes neither its seed, nor any other seed (the
\* wordOrder list of a seed is the list of the other seeds of the same
\* order), nor the input word list; so an attempt that starts, the later ones
\* with an order already used included, takes its first word and its words to
\* place from the full list, in the seed's order where the seed has one.
C29_AttemptLeavesSeedsAndWordsUnchanged ==
    [][/\ pc \in {"attempt", "while", "filter"}
             => seedCombinations' = seedCombinations /\ words' = words
       /\ (pc = "attempt" /\ pc' = "while")
             => LET seed == seedCombinations[seedIndex + 1]
                    taken == <<[word |-> result'.placements[1].word,
                                clue |-> result'.placements[1].clue]>> \o wordsToPlace'
                IN  /\ SameEntries(taken, words)
                    /\ "wordOrder" \in DOMAIN seed => taken = seed.wordOrder]_vars

\* C29 witness: the second attempt of a search in maxOverlap mode is under
\* way; its seed has the word order of the first attempt's seed, which has
\* returned, and its first placement is the first word of that order, with
\* all the other words to place.
C29_Witness ==
    /\ generationMode = "maxOverlap"
    /\ pc = "while"
    /\ Len(attemptLog) = 2
    /\ attemptLog[1].result # Null
    /\ seedIndex = 1
    /\ seedCombinations[1].wordOrder = seedCombinations[2].wordOrder
    /\ Len(seedCombinations[2].wordOrder) = Len(words)
    /\ Len(result.placements) = 1
    /\ result.placements[1].word = seedCombinations[2].wordOrder[1].word
    /\ wordsToPlace = Tail(seedCombinations[2].wordOrder)

\* the four sorted orders of the word list and the two starting positions
SortedOrders ==
    << StableSort(words, "longestFirst"), StableSort(words, "shortestFirst"),
       StableSort(words, "alphabetical"), StableSort(words, "reverseAlphabetical") >>
StartCells ==
    << [startRow |-> gridSize \div 2, startCol |-> gridSize \div 2],
       [startRow |-> 0, startCol |-> 0] >>

\* the seed list pairs each word order, in turn, with each starting position
\* in turn, and every word order is a permutation of the word list
OrdersTimesPositions ==
    /\ Len(seedCombinations) % Len(StartCells) = 0
    /\ \A k \in 1..Len(seedCombinations) :
          /\ DOMAIN seedCombinations[k] = {"wordOrder", "startingPosition"}
          /\ seedCombinations[k].startingPosition = StartCells[((k - 1) % Len(StartCells)) + 1]
          /\ seedCombinations[k].wordOrder
                = seedCombinations[k - ((k - 1) % Len(StartCells))].wordOrder
          /\ SameEntries(seedCombinations[k].wordOrder, words)

\* C30: in maxOverlap mode the seed list is the cross product, word order
\* first, of the word orders (longest first, shortest first, alphabetical,
\* reverse alphabetical, then deterministically shuffled permutations) with
\* the starting positions (grid centre, top-left corner): its first seed is
\* longest first at the centre, every word order is a permutation of the word
\* list, and after the seeds of the four sorted orders come those of the
\* shuffled ones.
C30_SeedsAreOrdersTimesPositions ==
    (generationMode = "maxOverlap" /\ pc \notin {"idle", "done"}) =>
        /\ OrdersTimesPositions
        /\ \A n \in 1..Len(SortedOrders) :
              /\ n * Len(StartCells) <= Len(seedCombinations)
              /\ seedCombinations[n * Len(StartCells)].wordOrder = SortedOrders[n]
        /\ seedCombinations[1]
              = [wordOrder |-> SortedOrders[1], startingPosition |-> StartCells[1]]
        /\ Len(seedCombinations) > Len(SortedOrders) * Len(StartCells)

\* the first step of the latest attempt has just been taken: the first word
\* is placed and no filter pass has begun
AttemptJustStarted ==
    /\ pc = "while"
    /\ attemptLog # <<>>
    /\ attemptLog[Len(attemptLog)].passes = <<>>
    /\ placedSomething
    /\ Len(result.placements) = 1

\* the order the latest attempt works through: the word it placed first, then
\* wordsToPlace as the attempt started with it
OrderUsed ==
    <<[word |-> result.placements[1].word, clue |-> result.placements[1].clue]>>
        \o wordsToPlace

\* C31 (as claimed): with enforceAllWords false the attempt the search runs
\* works through the words longest first and places the first of them across
\* from the centre cell of the grid, in maxOverlap mode and in random mode.
C31_SingleAttemptUsesDefaultOrderAndStart ==
    (AttemptJustStarted /\ ~enforceAllWords) =>
        /\ OrderUsed = StableSort(words, "longestFirst")
        /\ result.placements[1].direction = "across"
        /\ result.placements[1].startRow = gridSize \div 2
        /\ result.placements[1].startCol = gridSize \div 2

\* the word list the running search was started on
WordsOfSearch == attemptLog[1].words

\* C32 (as claimed): the await of every tenth attempt changes nothing.
\* Whatever handlers of the word list ran while the search waited, the search
\* returns the best Result, the attempt count and the perfect-solution flag
\* that the same search returns with no await, and whenever the
\* perfect-solution test reads the word list, the list is the one the seeds
\* were built from.
C32_YieldHasNoEffect ==
    /\ pc = "evaluate" => words = WordsOfSearch
    /\ pc = "done" =>
          \E reference \in {SearchWithoutYield(WordsOfSearch)} :
              /\ returned.bestResult = reference.bestResult
              /\ returned.attempts = reference.attempts
              /\ returned.foundPerfectSolution = reference.foundPerfectSolution

\* the cells the placements of res cover
CoveredCells(res) ==
    UNION { {CellAt(res.placements[k].startRow, res.placements[k].startCol,
                    res.placements[k].direction, i) :
                i \in 0..(Len(res.placements[k].word) - 1)} :
            k \in 1..Len(res.placements) }

\* the number of cells of the bounding box of the placements of res
BoxArea(res) ==
    LET rows == {cell[1] : cell \in CoveredCells(res)}
        cols == {cell[2] : cell \in CoveredCells(res)}
        span(set) == Cardinality((CHOOSE lo \in set : \A x \in set : lo <= x)
                                    ..(CHOOSE hi \in set : \A x \in set : hi >= x))
    IN  span(rows) * span(cols)

\* the filled cells of a take a strictly larger fraction of its bounding box
\* than those of b do
Denser(a, b) ==
    Cardinality(CoveredCells(a)) * BoxArea(b) > Cardinality(CoveredCells(b)) * BoxArea(a)

\* C33 (as claimed): of two Results with the same number of placements, at
\* least one each, the one whose filled cells take the strictly larger
\* fraction of the bounding box of its placements has the strictly higher
\* score.
C33_DenserResultScoresHigher ==
    \A a, b \in HeldResults :
        (Len(a.placements) = Len(b.placements) /\ Len(a.placements) > 0 /\ Denser(a, b))
            => scoreCrosswordResult(a) > scoreCrosswordResult(b)

\* the seed of attempt k
SeedOf(k) == seedCombinations[attemptLog[k].seedIndex + 1]

\* attempt k has taken its first step, which fixes the order of its words
Started(k) == ~(k = Len(attemptLog) /\ pc = "attempt")

\* a and b hold the same entries, each as many times: some one-to-one mapping
\* of the indexes of a onto those of b maps equal entries to each other
IsPermutationOf(a, b) ==
    /\ Len(a) = Len(b)
    /\ \A x \in {a[i] : i \in 1..Len(a)} \cup {b[i] : i \in 1..Len(b)} :
          Cardinality({i \in 1..Len(a) : a[i] = x}) = Cardinality({i \in 1..Len(b) : b[i] = x})

C35_OneAttemptGivesAResult ==
    pc = "done" =>
        /\ (returned.attempts >= 1 /\ \A k \in 1..Len(attemptLog) : attemptLog[k].words # <<>>) =>
              /\ returned.bestResult # Null
              /\ bestAttempt \in 1..Len(attemptLog)
              /\ Len(returned.bestResult.placements) >= 1
              /\ returned.bestResult.placements[1].word = attemptLog[bestAttempt].order[1].word
              /\ attemptLog[bestAttempt].order[1].word \in returned.bestResult.placedWords
        /\ returned.bestResult = Null => (returned.attempts = 0 /\ attemptLog = <<>>)

\* C35 witness: the search has tried every seed of its list, more than one,
\* on two words with no letter in common; the Result it returns holds the seed
\* word alone, and the flag is false.
C35_Witness ==
    /\ pc = "done"
    /\ returned.attempts >= 2
    /\ returned.attempts = Len(seedCombinations)
    /\ ~returned.foundPerfectSolution
    /\ returned.bestResult # Null
    /\ Len(returned.bestResult.placements) = 1
    /\ returned.bestResult.placements[1].word = attemptLog[bestAttempt].order[1].word

\* the cells placement p covers
CellsOf(p) == {CellAt(p.startRow, p.startCol, p.direction, i) : i \in 0..(Len(p.word) - 1)}

\* the cell just before the start of p and the cell just after its end
EndCells(p) ==
    {CellAt(p.startRow, p.startCol, p.direction, -1),
     CellAt(p.startRow, p.startCol, p.direction, Len(p.word))}

\* C36 (as claimed): in every Result, under construction or returned, the cell
\* just before the start and the cell just after the end of every placement
\* are empty or outside the grid, and no two placements of the same direction
\* share a cell.
C36_PlacementsAreNeverLengthened ==
    \A res \in HeldResults :
        \A j \in 1..Len(res.placements) :
            /\ \A cell \in EndCells(res.placements[j]) :
                  InGrid(cell, gridSize) => At(res.grid, cell[1], cell[2]) = Empty
            /\ \A k \in 1..Len(res.placements) :
                  (k # j /\ res.placements[k].direction = res.placements[j].direction) =>
                      CellsOf(res.placements[j]) \cap CellsOf(res.placements[k]) = {}

\* the cell next to cell along direction: to its right (across), below (down)
NextCell(cell, direction) == CellAt(cell[1], cell[2], direction, 1)

\* C37: in the grid of every Result, under construction or returned, any two
\* non-empty cells that touch side by side lie both on one across placement,
\* and any two that touch one above the other lie both on one down placement:
\* the grid holds no run of letters that is not part of a placed word.
C37_AdjacentLettersBelongToOneWord ==
    \A res \in HeldResults :
        \A direction \in {"across", "down"} :
            \A cell \in (0..(gridSize - 1)) \X (0..(gridSize - 1)) :
                (/\ InGrid(NextCell(cell, direction), gridSize)
                 /\ At(res.grid, cell[1], cell[2]) # Empty
                 /\ At(res.grid, NextCell(cell, direction)[1],
                       NextCell(cell, direction)[2]) # Empty) =>
                    \E k \in 1..Len(res.placements) :
                        /\ res.placements[k].direction = direction
                        /\ {cell, NextCell(cell, direction)}
                              \subseteq CellsOf(res.placements[k])

\* a Result with letters touching along a row and letters touching along a
\* column, where a down placement crosses an across placement
C37_Witness ==
    \E res \in HeldResults :
        /\ \E k \in 1..Len(res.placements) : res.placements[k].direction = "down"
        /\ \A direction \in {"across", "down"} :
               \E cell \in (0..(gridSize - 1)) \X (0..(gridSize - 1)) :
                   /\ InGrid(NextCell(cell, direction), gridSize)
                   /\ At(res.grid, cell[1], cell[2]) # Empty
                   /\ At(res.grid, NextCell(cell, direction)[1],
                         NextCell(cell, direction)[2]) # Empty

\* C38: in every Result, under construction, kept or returned, the number map
\* holds, under the start cell of every placement, that placement's number,
\* and it has one entry per placement.
C38_NumberMapMatchesPlacements ==
    \A res \in HeldResults :
        /\ \A k \in 1..Len(res.placements) :
               /\ <<res.placements[k].startRow, res.placements[k].startCol>>
                      \in DOMAIN res.wordNumbers
               /\ res.wordNumbers[<<res.placements[k].startRow,
                                    res.placements[k].startCol>>]
                      = res.placements[k].number
        /\ Cardinality(DOMAIN res.wordNumbers) = Len(res.placements)

\* C39: in every state the word-list handlers reach, editingIndex is -1 or an
\* index of the word list, and every index of the list holds a real entry:
\* the list has no hole, so its length is the number of its entries and an
\* update in edit mode replaces an entry that exists.
C39_EditingIndexIsValid ==
    /\ editingIndex = -1 \/ editingIndex \in 0..(Len(words) - 1)
    /\ \A k \in 1..Len(words) : words[k] # Hole

====
